---- MODULE Spec2Model ----
(***************************************************************************)
(* The document edit-state engine of the PDF editor: the zustand store of  *)
(* frontend/src/stores/editor-store.ts (annotations, page structure, the   *)
(* operation log with its undo and redo stacks).                           *)
(*                                                                         *)
(* Every store action runs to completion (get() followed by one set()),    *)
(* so each is one action of the model.  A call that returns early leaves   *)
(* the store untouched: it is a step that changes nothing.                 *)
(***************************************************************************)
EXTENDS Integers, Sequences, FiniteSets

VARIABLES
    document,               \* DocumentState | null (loaded = FALSE is null)
    currentPage,            \* 1-based display page
    annotations,            \* Map<string, Annotation>: id -> annotation
    selectedAnnotationIds,  \* Set<string>
    operations,             \* Operation[]: the history
    undoStack,              \* Operation[]
    redoStack,              \* Operation[]
    storedDocument,         \* db.documents: the row of the edited document
    storedAnnotations,      \* db.annotations: id -> row of the document
    saveTimeouts,           \* useAutoSave: the timeouts set and not cleared
    sinceMutation,          \* time since the last render of a changed model
    burst,                  \* such renders, each within the delay of the last
    writes,                 \* the writes started since that render
    exported,               \* what the last handleExport produced
    geometry,               \* a call of lib/geometry.ts: arguments, result
    scale,                  \* zoom scale of the view, a fraction or NaN
    scaleMode,              \* 'fit-width' | 'fit-page' | 'custom'
    storageDir,             \* backend: the files in STORAGE_DIR
    requests,               \* backend: the request each client has made
    observed,               \* backend: what the responses so far have told
    load                    \* loadFromStorage: the await it has reached

vars == <<document, currentPage, annotations, selectedAnnotationIds,
          operations, undoStack, redoStack>>

\* The server of the API: its storage directory and its clients
backend == <<storageDir, requests, observed>>

\* What lies around the store: IndexedDB, the auto-save timer, the export.
surroundings == <<storedDocument, storedAnnotations, saveTimeouts,
                  sinceMutation, burst, writes, exported, geometry,
                  scale, scaleMode, backend, load>>

allVars == <<vars, surroundings>>

----------------------------------------------------------------------------
(* Bounds of the model *)

MaxPages == 2
MaxOps == 2
MaxAnnotations == 1

----------------------------------------------------------------------------
(* Values *)

\* The array hole `const [removed] = newOrder.splice(i, 1)` yields when nothing
\* was removed: the value undefined, kept apart from every page index.
UndefinedPage == -99

EmptyMap == [k \in {} |-> 0]

NullDocument ==
    [loaded |-> FALSE, numPages |-> 0, pageRotations |-> EmptyMap,
     deletedPages |-> {}, pageOrder |-> <<>>]

AnnotationIds == 1..MaxAnnotations
\* Page arguments: every original index and one past the last page.
PageArgs == 0..MaxPages
Degrees == {90, -90}
UpdatableFields == {"content", "rect"}
FieldValues == 0..1

\* The partial annotations a caller passes as `changes`: new values for one
\* or more of the fields a component edits.
ChangeSets ==
    UNION {[keys -> FieldValues] : keys \in (SUBSET UpdatableFields) \ {{}}}

----------------------------------------------------------------------------
(* JavaScript primitives the store relies on *)

Min(a, b) == IF a < b THEN a ELSE b
Max(a, b) == IF a > b THEN a ELSE b

\* The % operator: the result takes the sign of the dividend.
JsRem(a, n) == IF a >= 0 THEN a % n ELSE -((-a) % n)

\* { ...a, ...b }
Spread(a, b) ==
    [k \in (DOMAIN a) \cup (DOMAIN b) |-> IF k \in DOMAIN b THEN b[k] ELSE a[k]]

\* Map.set / { ...record, [key]: value }
MapSet(m, key, value) ==
    [k \in (DOMAIN m) \cup {key} |-> IF k = key THEN value ELSE m[k]]

\* Map.delete
MapDelete(m, key) == [k \in (DOMAIN m) \ {key} |-> m[k]]

\* Array.prototype.splice: the start index is clamped into 0..length,
\* a negative one counts from the end.
SpliceStart(arr, start) ==
    IF start < 0 THEN Max(Len(arr) + start, 0) ELSE Min(start, Len(arr))

\* arr.splice(start, 1): the array after the removal.
SpliceRemove(arr, start) ==
    LET s == SpliceStart(arr, start)
    IN  IF s < Len(arr)
        THEN SubSeq(arr, 1, s) \o SubSeq(arr, s + 2, Len(arr))
        ELSE arr

\* const [removed] = arr.splice(start, 1)
SpliceRemoved(arr, start) ==
    LET s == SpliceStart(arr, start)
    IN  IF s < Len(arr) THEN arr[s + 1] ELSE UndefinedPage

\* arr.splice(start, 0, item)
SpliceInsert(arr, start, item) ==
    LET s == SpliceStart(arr, start)
    IN  SubSeq(arr, 1, s) \o <<item>> \o SubSeq(arr, s + 1, Len(arr))

\* arr.filter((i) => i !== x)
FilterOut(arr, x) == SelectSeq(arr, LAMBDA i : i # x)

\* arr.slice(0, -1)
DropLast(arr) == SubSeq(arr, 1, Len(arr) - 1)

Last(arr) == arr[Len(arr)]

Range(arr) == {arr[i] : i \in 1..Len(arr)}

----------------------------------------------------------------------------
(* Initial state of the store *)

\* An empty database, no timeout set, nothing exported.  The editor route
\* passes debounceMs = 2000 to useAutoSave; one unit of time is 1000 ms.
debounceMs == 2

\* The backend: MaxClients clients, each with one request at a time, and
\* MaxUploads document ids that generateId can return, 1..MaxUploads.  Id 0
\* is an id that generateId never returns.
MaxClients == 2
MaxUploads == 2
Clients == 1..MaxClients
DocumentIds == 1..MaxUploads

NothingObserved ==
    [generated |-> {}, uploaded |-> {}, deleting |-> {}, deleted |-> {}]
NoRequest ==
    [route |-> "none", id |-> 0, pc |-> "done", status |-> 0,
     documents |-> {}, pending |-> {}, before |-> NothingObserved]

NoStoredDocument == [stored |-> FALSE]
NothingExported == [outcome |-> "none"]
NoCall == [call |-> "none"]

\* No load of a stored document under way.  sameMap: the Map the load read
\* from the store is still the store's annotations; drawn: the annotations
\* added since the load began.
NotLoading ==
    [pc |-> "idle", storedDoc |-> NoStoredDocument, sameMap |-> TRUE,
     drawn |-> {}]

\* A new session: the store as created, no timer, no request
InitSession ==
    /\ document = NullDocument
    /\ currentPage = 1
    /\ annotations = EmptyMap
    /\ selectedAnnotationIds = {}
    /\ operations = <<>>
    /\ undoStack = <<>>
    /\ redoStack = <<>>
    /\ saveTimeouts = {}
    /\ sinceMutation = debounceMs
    /\ burst = 0
    /\ writes = <<>>
    /\ exported = NothingExported
    /\ scale = [n |-> 1, d |-> 1]
    /\ scaleMode = "fit-width"
    /\ storageDir = {}
    /\ requests = [client \in Clients |-> NoRequest]
    /\ observed = NothingObserved
    /\ load = NotLoading

\* A new session over an empty database
InitEditor ==
    /\ InitSession
    /\ storedDocument = NoStoredDocument
    /\ storedAnnotations = EmptyMap

Init ==
    /\ InitEditor
    /\ geometry = NoCall

\* A step of the store alone, with the auto-save and the export left out.
StoreOnly == UNCHANGED surroundings

\* generateId(): an id no operation of the log carries.
generateId == Len(operations) + 1

\* Date.now(): the calls that read it (one per recorded operation) are user
\* gestures at different times, so each reads a later time than the last.
DateNow == Len(operations) + 1

----------------------------------------------------------------------------
(* Document actions *)

\* Array.from({ length: numPages }, (_, i) => i)
InitialPageOrder(numPages) == [i \in 1..numPages |-> i - 1]

LoadedDocument(numPages) ==
    [loaded |-> TRUE, numPages |-> numPages, pageRotations |-> EmptyMap,
     deletedPages |-> {}, pageOrder |-> InitialPageOrder(numPages)]

\* A load that keeps the annotations of the document shown before.
loadDocumentKeepingAnnotations(numPages) ==
    /\ document' = LoadedDocument(numPages)
    /\ currentPage' = 1
    /\ operations' = <<>>
    /\ undoStack' = <<>>
    /\ redoStack' = <<>>
    /\ UNCHANGED <<annotations, selectedAnnotationIds>>

loadDocument(numPages) ==
    /\ document' = LoadedDocument(numPages)
    /\ currentPage' = 1
    /\ annotations' = EmptyMap
    /\ operations' = <<>>
    /\ undoStack' = <<>>
    /\ redoStack' = <<>>
    /\ UNCHANGED selectedAnnotationIds

closeDocument ==
    /\ document' = NullDocument
    /\ annotations' = EmptyMap
    /\ operations' = <<>>
    /\ undoStack' = <<>>
    /\ redoStack' = <<>>
    /\ selectedAnnotationIds' = {}
    /\ currentPage' = 1

----------------------------------------------------------------------------
(* View and selection actions *)

setCurrentPage(page) ==
    IF ~document.loaded
    THEN UNCHANGED vars
    ELSE /\ currentPage' = Max(1, Min(page, Len(document.pageOrder)))
         /\ UNCHANGED <<document, annotations, selectedAnnotationIds,
                        operations, undoStack, redoStack>>

selectAnnotation(id, addToSelection) ==
    /\ selectedAnnotationIds' =
           IF addToSelection THEN selectedAnnotationIds \cup {id} ELSE {id}
    /\ UNCHANGED <<document, currentPage, annotations, operations, undoStack,
                   redoStack>>

----------------------------------------------------------------------------
(* The operation log *)

\* A history that keeps only the newest operation.
ReplacedHistory(history, operation) == <<operation>>

\* operations: [...state.operations, operation]
AppendHistory(history, operation) == Append(history, operation)

\* An undo stack that takes a new operation at its bottom.
PushUndoBelow(stack, operation) == <<operation>> \o stack

\* undoStack: [...state.undoStack, operation]
PushUndo(stack, operation) == Append(stack, operation)

\* A log that keeps the redo stack across a new operation.
KeptRedo(stack) == stack

\* redoStack: []
ClearedRedo(stack) == <<>>

Record(operation) ==
    /\ operations' = AppendHistory(operations, operation)
    /\ undoStack' = PushUndo(undoStack, operation)
    /\ redoStack' = ClearedRedo(redoStack)

----------------------------------------------------------------------------
(* Annotation actions *)

AddAnnotationOperation(annotation) ==
    [id |-> generateId, type |-> "add_annotation", annotation |-> annotation]

\* newAnnotations.set(annotation.id, annotation)
AddedAnnotations(anns, annotation) == MapSet(anns, annotation.id, annotation)

addAnnotation(annotation) ==
    /\ Len(operations) < MaxOps
    /\ annotations' = AddedAnnotations(annotations, annotation)
    /\ Record(AddAnnotationOperation(annotation))
    /\ UNCHANGED <<document, currentPage, selectedAnnotationIds>>

\* previousState[key] = existing[key] for every key of changes
PreviousState(existing, changes) == [k \in DOMAIN changes |-> existing[k]]

\* { ...existing, ...changes, updatedAt: Date.now() }
Updated(existing, changes) ==
    Spread(Spread(existing, changes), [updatedAt |-> DateNow])

UpdateAnnotationOperation(anns, id, changes) ==
    [id |-> generateId, type |-> "update_annotation", annotationId |-> id,
     changes |-> changes, previousState |-> PreviousState(anns[id], changes)]

UpdatedAnnotations(anns, id, changes) ==
    MapSet(anns, id, Updated(anns[id], changes))

\* const existing = annotations.get(id); if (!existing) return
HasAnnotation(anns, id) == id \in DOMAIN anns

\* An updateAnnotation that resets the redo stack before it looks the id up.
updateAnnotationResettingRedo(id, changes) ==
    IF ~HasAnnotation(annotations, id)
    THEN /\ redoStack' = <<>>
         /\ UNCHANGED <<document, currentPage, annotations,
                        selectedAnnotationIds, operations, undoStack>>
    ELSE /\ Len(operations) < MaxOps
         /\ annotations' = UpdatedAnnotations(annotations, id, changes)
         /\ Record(UpdateAnnotationOperation(annotations, id, changes))
         /\ UNCHANGED <<document, currentPage, selectedAnnotationIds>>

updateAnnotation(id, changes) ==
    IF ~HasAnnotation(annotations, id)
    THEN UNCHANGED vars
    ELSE /\ Len(operations) < MaxOps
         /\ annotations' = UpdatedAnnotations(annotations, id, changes)
         /\ Record(UpdateAnnotationOperation(annotations, id, changes))
         /\ UNCHANGED <<document, currentPage, selectedAnnotationIds>>

\* A delete_annotation operation that snapshots the annotation without the
\* content an earlier update gave it.
DeleteAnnotationOperationStale(anns, id) ==
    [id |-> generateId, type |-> "delete_annotation",
     annotation |-> [anns[id] EXCEPT !.content = 0]]

DeleteAnnotationOperation(anns, id) ==
    [id |-> generateId, type |-> "delete_annotation", annotation |-> anns[id]]

deleteAnnotation(id) ==
    IF ~HasAnnotation(annotations, id)
    THEN UNCHANGED vars
    ELSE /\ Len(operations) < MaxOps
         /\ annotations' = MapDelete(annotations, id)
         /\ selectedAnnotationIds' = selectedAnnotationIds \ {id}
         /\ Record(DeleteAnnotationOperation(annotations, id))
         /\ UNCHANGED <<document, currentPage>>

----------------------------------------------------------------------------
(* Page operations *)

\* document.pageRotations[pageIndex] || 0
RotationOf(doc, pageIndex) ==
    IF pageIndex \in DOMAIN doc.pageRotations
    THEN doc.pageRotations[pageIndex]
    ELSE 0

\* (previousRotation + degrees) % 360
NewRotation(previousRotation, degrees) == JsRem(previousRotation + degrees, 360)

RotatePageOperation(doc, pageIndex, degrees) ==
    [id |-> generateId, type |-> "rotate_page", pageIndex |-> pageIndex,
     rotation |-> degrees, previousRotation |-> RotationOf(doc, pageIndex)]

\* A rotation that also puts the display order back to the original one.
RotatedDocumentResettingOrder(doc, pageIndex, degrees) ==
    [doc EXCEPT
        !.pageRotations =
            MapSet(@, pageIndex,
                   JsRem(RotationOf(doc, pageIndex) + degrees, 360)),
        !.pageOrder = [i \in 1..Len(@) |-> i - 1]]

RotatedDocument(doc, pageIndex, degrees) ==
    [doc EXCEPT !.pageRotations =
        MapSet(@, pageIndex, NewRotation(RotationOf(doc, pageIndex), degrees))]

rotatePage(pageIndex, degrees) ==
    IF ~document.loaded
    THEN UNCHANGED vars
    ELSE /\ Len(operations) < MaxOps
         /\ document' = RotatedDocument(document, pageIndex, degrees)
         /\ Record(RotatePageOperation(document, pageIndex, degrees))
         /\ UNCHANGED <<currentPage, annotations, selectedAnnotationIds>>

\* A guard that only refuses to delete from an empty display order.
DeletePageGuardNonEmpty(doc) == doc.loaded /\ Len(doc.pageOrder) > 0

\* if (!document || document.pageOrder.length <= 1) return
DeletePageGuard(doc) == doc.loaded /\ Len(doc.pageOrder) > 1

DeletePageOperation(pageIndex) ==
    [id |-> generateId, type |-> "delete_page", pageIndex |-> pageIndex]

DeletedPageDocument(doc, pageIndex) ==
    [doc EXCEPT !.deletedPages = @ \cup {pageIndex},
                !.pageOrder = FilterOut(@, pageIndex)]

\* A deletePage that also removes the annotations of the page
deletePageSmart(bound, pageIndex) ==
    IF ~DeletePageGuard(document)
    THEN UNCHANGED vars
    ELSE /\ Len(operations) < bound
         /\ document' = DeletedPageDocument(document, pageIndex)
         /\ currentPage' =
                Min(currentPage,
                    Len(DeletedPageDocument(document, pageIndex).pageOrder))
         /\ Record(DeletePageOperation(pageIndex))
         /\ annotations' =
                [id \in {other \in DOMAIN annotations :
                            annotations[other].pageIndex # pageIndex} |->
                    annotations[id]]
         /\ UNCHANGED selectedAnnotationIds

\* deletePage in a history of fewer than bound operations
deletePageWithin(bound, pageIndex) ==
    IF ~DeletePageGuard(document)
    THEN UNCHANGED vars
    ELSE /\ Len(operations) < bound
         /\ document' = DeletedPageDocument(document, pageIndex)
         /\ currentPage' =
                Min(currentPage,
                    Len(DeletedPageDocument(document, pageIndex).pageOrder))
         /\ Record(DeletePageOperation(pageIndex))
         /\ UNCHANGED <<annotations, selectedAnnotationIds>>

deletePage(pageIndex) == deletePageWithin(MaxOps, pageIndex)

\* A reorder that exchanges the pages at the two positions.
SwapPages(order, fromIndex, toIndex) ==
    [i \in 1..Len(order) |->
        IF i = fromIndex + 1 /\ toIndex + 1 \in 1..Len(order)
        THEN order[toIndex + 1]
        ELSE IF i = toIndex + 1 /\ fromIndex + 1 \in 1..Len(order)
        THEN order[fromIndex + 1]
        ELSE order[i]]

\* const [removed] = newOrder.splice(fromIndex, 1)
\* newOrder.splice(toIndex, 0, removed)
MovePage(order, fromIndex, toIndex) ==
    SpliceInsert(SpliceRemove(order, fromIndex), toIndex,
                 SpliceRemoved(order, fromIndex))

ReorderPagesOperation(fromIndex, toIndex) ==
    [id |-> generateId, type |-> "reorder_pages", fromIndex |-> fromIndex,
     toIndex |-> toIndex]

ReorderedDocument(doc, fromIndex, toIndex) ==
    [doc EXCEPT !.pageOrder = MovePage(@, fromIndex, toIndex)]

\* reorderPages in a history of fewer than bound operations
reorderPagesWithin(bound, fromIndex, toIndex) ==
    IF ~document.loaded
    THEN UNCHANGED vars
    ELSE /\ Len(operations) < bound
         /\ document' = ReorderedDocument(document, fromIndex, toIndex)
         /\ Record(ReorderPagesOperation(fromIndex, toIndex))
         /\ UNCHANGED <<currentPage, annotations, selectedAnnotationIds>>

reorderPages(fromIndex, toIndex) ==
    reorderPagesWithin(MaxOps, fromIndex, toIndex)

----------------------------------------------------------------------------
(* History actions *)

\* An undo of update_annotation that spreads the changes again.
RestoredFromChanges(existing, operation) == Spread(existing, operation.changes)

\* { ...existing, ...operation.previousState }
RestoredAnnotation(existing, operation) ==
    Spread(existing, operation.previousState)

\* { ...existing, ...operation.changes }
ReappliedAnnotation(existing, operation) == Spread(existing, operation.changes)

\* The annotation cases of undo's switch.
undoAnnotations(operation, anns) ==
    CASE operation.type = "add_annotation" ->
            MapDelete(anns, operation.annotation.id)
      [] operation.type = "update_annotation" ->
            IF operation.annotationId \in DOMAIN anns
            THEN MapSet(anns, operation.annotationId,
                        RestoredAnnotation(anns[operation.annotationId],
                                           operation))
            ELSE anns
      [] operation.type = "delete_annotation" ->
            MapSet(anns, operation.annotation.id, operation.annotation)
      [] OTHER -> anns

\* An undo of rotate_page that turns the page back to upright.
UndoneRotationUpright(operation) == 0

\* [operation.pageIndex]: operation.previousRotation
UndoneRotation(operation) == operation.previousRotation

\* The page cases of undo's switch; each is skipped when document is null.
undoDocument(operation, doc) ==
    IF ~doc.loaded THEN doc
    ELSE
    CASE operation.type = "rotate_page" ->
            [doc EXCEPT !.pageRotations =
                MapSet(@, operation.pageIndex, UndoneRotation(operation))]
      [] operation.type = "delete_page" ->
            [doc EXCEPT
                !.deletedPages = @ \ {operation.pageIndex},
                !.pageOrder =
                    SpliceInsert(@, operation.pageIndex, operation.pageIndex)]
      [] operation.type = "reorder_pages" ->
            [doc EXCEPT
                !.pageOrder =
                    MovePage(@, operation.toIndex, operation.fromIndex)]
      [] OTHER -> doc

\* The annotation cases of redo's switch.
redoAnnotations(operation, anns) ==
    CASE operation.type = "add_annotation" ->
            MapSet(anns, operation.annotation.id, operation.annotation)
      [] operation.type = "update_annotation" ->
            IF operation.annotationId \in DOMAIN anns
            THEN MapSet(anns, operation.annotationId,
                        ReappliedAnnotation(anns[operation.annotationId],
                                            operation))
            ELSE anns
      [] operation.type = "delete_annotation" ->
            MapDelete(anns, operation.annotation.id)
      [] OTHER -> anns

\* The page cases of redo's switch; each is skipped when document is null.
redoDocument(operation, doc) ==
    IF ~doc.loaded THEN doc
    ELSE
    CASE operation.type = "rotate_page" ->
            [doc EXCEPT !.pageRotations =
                MapSet(@, operation.pageIndex,
                       NewRotation(RotationOf(doc, operation.pageIndex),
                                   operation.rotation))]
      [] operation.type = "delete_page" ->
            [doc EXCEPT
                !.deletedPages = @ \cup {operation.pageIndex},
                !.pageOrder = FilterOut(@, operation.pageIndex)]
      [] operation.type = "reorder_pages" ->
            [doc EXCEPT
                !.pageOrder =
                    MovePage(@, operation.fromIndex, operation.toIndex)]
      [] OTHER -> doc

\* state.undoStack.slice(0, -1) / state.redoStack.slice(0, -1)
Popped(stack) == DropLast(stack)

\* A stack that drops the operation handed to it.
NotPushed(stack, operation) == stack

\* [...state.redoStack, operation] / [...state.undoStack, operation]
Pushed(stack, operation) == Append(stack, operation)

undo ==
    IF Len(undoStack) = 0
    THEN UNCHANGED vars
    ELSE /\ undoStack' = Popped(undoStack)
         /\ redoStack' = Pushed(redoStack, Last(undoStack))
         /\ annotations' = undoAnnotations(Last(undoStack), annotations)
         /\ document' = undoDocument(Last(undoStack), document)
         /\ UNCHANGED <<currentPage, selectedAnnotationIds, operations>>

redo ==
    IF Len(redoStack) = 0
    THEN UNCHANGED vars
    ELSE /\ redoStack' = Popped(redoStack)
         /\ undoStack' = Pushed(undoStack, Last(redoStack))
         /\ annotations' = redoAnnotations(Last(redoStack), annotations)
         /\ document' = redoDocument(Last(redoStack), document)
         /\ UNCHANGED <<currentPage, selectedAnnotationIds, operations>>

canUndo == Len(undoStack) > 0
canRedo == Len(redoStack) > 0

----------------------------------------------------------------------------
(* The store under every call its actions accept *)

\* The ids generateId() has handed to annotations of this document so far.
UsedAnnotationIds ==
    (DOMAIN annotations) \cup (DOMAIN storedAnnotations) \cup
    {operations[i].annotation.id :
        i \in {j \in 1..Len(operations) : operations[j].type = "add_annotation"}}

\* An id from generateId(): ids are opaque, the smallest unused one stands
\* for a fresh one.
FreshAnnotationIds ==
    {i \in AnnotationIds \ UsedAnnotationIds :
        \A j \in AnnotationIds \ UsedAnnotationIds : i <= j}

\* The annotation objects useAnnotations builds: a fresh id, the page the
\* user drew on, createdAt = updatedAt = Date.now().
NewAnnotation(id, pageIndex) ==
    [id |-> id, pageIndex |-> pageIndex, content |-> 0, rect |-> 0,
     updatedAt |-> DateNow]

Next ==
    \/ \E numPages \in 1..MaxPages : loadDocument(numPages) /\ StoreOnly
    \/ closeDocument /\ StoreOnly
    \/ \E id \in FreshAnnotationIds, pageIndex \in 0..(MaxPages - 1) :
            addAnnotation(NewAnnotation(id, pageIndex)) /\ StoreOnly
    \/ \E id \in AnnotationIds, changes \in ChangeSets :
            updateAnnotation(id, changes) /\ StoreOnly
    \/ \E id \in AnnotationIds : deleteAnnotation(id) /\ StoreOnly
    \/ \E pageIndex \in 0..(MaxPages - 1), degrees \in Degrees :
            rotatePage(pageIndex, degrees) /\ StoreOnly
    \/ \E pageIndex \in PageArgs : deletePage(pageIndex) /\ StoreOnly
    \/ \E fromIndex \in PageArgs, toIndex \in PageArgs :
            reorderPages(fromIndex, toIndex) /\ StoreOnly
    \/ undo /\ StoreOnly
    \/ redo /\ StoreOnly

Spec == Init /\ [][Next]_vars

----------------------------------------------------------------------------
(* The store as the editor's components drive it *)

\* PageTools: document?.pageOrder[currentPage - 1] ?? -1
CurrentPageIndex ==
    IF document.loaded /\ currentPage \in 1..Len(document.pageOrder)
    THEN document.pageOrder[currentPage]
    ELSE -1

\* PageTools: document && document.pageOrder.length > 1
canDeletePage == document.loaded /\ Len(document.pageOrder) > 1

\* PageTools.handleRotate
handleRotate ==
    /\ CurrentPageIndex >= 0
    /\ rotatePage(CurrentPageIndex, 90)

\* PageTools.handleDelete, the user confirming
handleDelete ==
    /\ CurrentPageIndex >= 0
    /\ canDeletePage
    /\ deletePage(CurrentPageIndex)

\* ThumbnailSidebar.handleDragEnd: a thumbnail dropped on another one
handleDragEnd ==
    /\ document.loaded
    /\ \E oldIndex \in 0..(Len(document.pageOrder) - 1),
          newIndex \in 0..(Len(document.pageOrder) - 1) :
            /\ oldIndex # newIndex
            /\ reorderPages(oldIndex, newIndex)

\* A thumbnail click or a navigation key: a page of the display order
navigate ==
    /\ document.loaded
    /\ \E page \in 1..Len(document.pageOrder) : setCurrentPage(page)

\* useAnnotations.addHighlight, addNote, ...: drawn on a displayed page
drawAnnotation ==
    /\ document.loaded
    /\ \E id \in FreshAnnotationIds, pageIndex \in Range(document.pageOrder) :
            addAnnotation(NewAnnotation(id, pageIndex))

\* onUpdate of a rendered annotation component
editAnnotation ==
    \E id \in DOMAIN annotations, changes \in ChangeSets :
        updateAnnotation(id, changes)

\* A click on a rendered annotation: selectAnnotation(annotationId, e.shiftKey)
clickAnnotation ==
    \E id \in DOMAIN annotations, shiftKey \in BOOLEAN :
        selectAnnotation(id, shiftKey)

\* The orders in which forEach can visit the ids of a set (a Set iterates in
\* insertion order, the order of the user's clicks).
Orders(ids) ==
    {order \in [1..Cardinality(ids) -> ids] :
        \A i, j \in 1..Cardinality(ids) : i # j => order[i] # order[j]}

\* The operations deleteAnnotation records when it is called for each id of
\* `order` in turn.
DeleteOperations(order) ==
    [i \in 1..Len(order) |->
        [id |-> Len(operations) + i, type |-> "delete_annotation",
         annotation |-> annotations[order[i]]]]

\* useKeyboardNavigation, Delete or Backspace with a selection:
\* selectedAnnotationIds.forEach((id) => deleteAnnotation(id)).  The ids
\* without an annotation return early and stay selected.
pressDelete ==
    /\ selectedAnnotationIds # {}
    /\ LET present == selectedAnnotationIds \cap DOMAIN annotations
       IN  IF present = {}
           THEN UNCHANGED vars
           ELSE \E order \in Orders(present) :
                    /\ Len(operations) + Len(order) <= MaxOps
                    /\ annotations' =
                            [id \in (DOMAIN annotations) \ present |->
                                annotations[id]]
                    /\ selectedAnnotationIds' =
                            selectedAnnotationIds \ present
                    /\ operations' = operations \o DeleteOperations(order)
                    /\ undoStack' = undoStack \o DeleteOperations(order)
                    /\ redoStack' = <<>>
                    /\ UNCHANGED <<document, currentPage>>

NextUI ==
    \/ \E numPages \in 1..MaxPages : loadDocument(numPages) /\ StoreOnly
    \/ navigate /\ StoreOnly
    \/ handleRotate /\ StoreOnly
    \/ handleDelete /\ StoreOnly
    \/ handleDragEnd /\ StoreOnly
    \/ drawAnnotation /\ StoreOnly
    \/ editAnnotation /\ StoreOnly
    \/ clickAnnotation /\ StoreOnly
    \/ pressDelete /\ StoreOnly
    \/ undo /\ StoreOnly
    \/ redo /\ StoreOnly

SpecUI == Init /\ [][NextUI]_vars

\* The editor's gestures that record an operation.
EditGesture ==
    \/ handleRotate
    \/ handleDelete
    \/ handleDragEnd
    \/ drawAnnotation
    \/ editAnnotation
    \/ pressDelete

\* Edits on a loaded document, then undo: no redo, and no edit once an
\* operation has been undone.
NextApplyThenUndo ==
    \/ \E numPages \in 1..MaxPages : loadDocument(numPages) /\ StoreOnly
    \/ navigate /\ StoreOnly
    \/ clickAnnotation /\ StoreOnly
    \/ (redoStack = <<>> /\ EditGesture) /\ StoreOnly
    \/ (canUndo /\ undo) /\ StoreOnly

SpecApplyThenUndo == Init /\ [][NextApplyThenUndo]_vars

----------------------------------------------------------------------------
(* The model the claims compare: annotations, rotations, deleted pages and  *)
(* display order.  Rotations are compared page by page, so that a missing   *)
(* entry of pageRotations and an entry 0 are the same rotation.             *)

SameRotations(doc1, doc2) ==
    \A p \in PageArgs : RotationOf(doc1, p) = RotationOf(doc2, p)

SameModel(anns1, doc1, anns2, doc2) ==
    /\ anns1 = anns2
    /\ SameRotations(doc1, doc2)
    /\ doc1.deletedPages = doc2.deletedPages
    /\ doc1.pageOrder = doc2.pageOrder

----------------------------------------------------------------------------
(* C1 *)

\* C1: n edits on a freshly loaded document followed by n undos give back
\* the freshly loaded model: no annotations, no rotation, no deleted page,
\* the pages in their original order.
C1_UndoAllRestoresInitialModel ==
    (document.loaded /\ undoStack = <<>>) =>
        SameModel(annotations, document,
                  EmptyMap, LoadedDocument(document.numPages))

----------------------------------------------------------------------------
(* C2 *)

\* What each gesture of the editor would do in the current state: the
\* operation it records and the annotations and document it leaves.
Applied(operation, anns, doc) ==
    [operation |-> operation, annotations |-> anns, document |-> doc]

GestureOutcomes ==
    {Applied(RotatePageOperation(document, p, 90), annotations,
             RotatedDocument(document, p, 90)) :
        p \in {CurrentPageIndex} \ {-1}}
    \cup
    {Applied(DeletePageOperation(p), annotations,
             DeletedPageDocument(document, p)) :
        p \in {q \in {CurrentPageIndex} \ {-1} : canDeletePage}}
    \cup
    {Applied(ReorderPagesOperation(m[1], m[2]), annotations,
             ReorderedDocument(document, m[1], m[2])) :
        m \in {n \in (0..(Len(document.pageOrder) - 1)) \X
                     (0..(Len(document.pageOrder) - 1)) : n[1] # n[2]}}
    \cup
    {Applied(AddAnnotationOperation(NewAnnotation(id, p)),
             AddedAnnotations(annotations, NewAnnotation(id, p)), document) :
        id \in FreshAnnotationIds, p \in Range(document.pageOrder)}
    \cup
    {Applied(UpdateAnnotationOperation(annotations, id, changes),
             UpdatedAnnotations(annotations, id, changes), document) :
        id \in DOMAIN annotations, changes \in ChangeSets}
    \cup
    {Applied(DeleteAnnotationOperation(annotations, id),
             MapDelete(annotations, id), document) :
        id \in selectedAnnotationIds \cap DOMAIN annotations}

UndoRestores(a) ==
    SameModel(undoAnnotations(a.operation, a.annotations),
              undoDocument(a.operation, a.document),
              annotations, document)

RedoReproduces(a) ==
    SameModel(redoAnnotations(a.operation,
                              undoAnnotations(a.operation, a.annotations)),
              redoDocument(a.operation,
                           undoDocument(a.operation, a.document)),
              a.annotations, a.document)

\* C2: in every reachable state and for every operation applied there,
\* undo gives back the model as it was before the operation, and a
\* following redo gives the model the operation had produced.
C2_UndoInvertsRedoReproduces ==
    document.loaded =>
        \A a \in GestureOutcomes : UndoRestores(a) /\ RedoReproduces(a)

----------------------------------------------------------------------------
(* C3 *)

\* A call of one of the six mutating actions.
MutatingCall ==
    \/ \E id \in AnnotationIds, pageIndex \in 0..(MaxPages - 1) :
            addAnnotation(NewAnnotation(id, pageIndex))
    \/ \E id \in AnnotationIds, changes \in ChangeSets :
            updateAnnotation(id, changes)
    \/ \E id \in AnnotationIds : deleteAnnotation(id)
    \/ \E pageIndex \in PageArgs, degrees \in Degrees :
            rotatePage(pageIndex, degrees)
    \/ \E pageIndex \in PageArgs : deletePage(pageIndex)
    \/ \E fromIndex \in PageArgs, toIndex \in PageArgs :
            reorderPages(fromIndex, toIndex)

\* C3: every successful mutating action appends exactly one operation to
\* the history, pushes that same operation on undoStack and leaves redoStack
\* empty, whatever had been undone before.
C3_MutationAppendsOneOperation ==
    [][MutatingCall =>
        /\ Len(operations') = Len(operations) + 1
        /\ SubSeq(operations', 1, Len(operations)) = operations
        /\ undoStack' = Append(undoStack, operations'[Len(operations')])
        /\ redoStack' = <<>>]_vars

\* A mutation made after an undo: two operations in the history, only the
\* second one left to undo, nothing to redo.
C3_MutationAfterUndo ==
    /\ Len(operations) = 2
    /\ Len(undoStack) = 1
    /\ undoStack[1] = operations[2]
    /\ redoStack = <<>>

----------------------------------------------------------------------------
(* C4 *)

\* C4: a step of undo pops the last operation of undoStack and pushes it on
\* redoStack, a step of redo pops the last operation of redoStack and pushes
\* it on undoStack; neither changes the size of the two stacks together,
\* and with an empty stack to pop from neither changes anything.
C4_UndoRedoStackDiscipline ==
    [][/\ undo =>
            /\ undoStack # <<>>
            /\ undoStack' = DropLast(undoStack)
            /\ redoStack' = Append(redoStack, Last(undoStack))
            /\ Len(undoStack') + Len(redoStack')
                    = Len(undoStack) + Len(redoStack)
       /\ redo =>
            /\ redoStack # <<>>
            /\ redoStack' = DropLast(redoStack)
            /\ undoStack' = Append(undoStack, Last(redoStack))
            /\ Len(undoStack') + Len(redoStack')
                    = Len(undoStack) + Len(redoStack)]_vars

\* One operation undone while another is still applied.
C4_BothStacksInUse ==
    /\ undoStack # <<>>
    /\ redoStack # <<>>
    /\ Len(undoStack) + Len(redoStack) = Len(operations)

----------------------------------------------------------------------------
(* C5 *)

\* C5: on a loaded document pageOrder has numPages - |deletedPages| entries
\* and holds each original page index that is not deleted exactly once.
C5_DisplayOrderIsPermutation ==
    document.loaded =>
        /\ Len(document.pageOrder) =
                document.numPages - Cardinality(document.deletedPages)
        /\ Range(document.pageOrder) =
                (0..(document.numPages - 1)) \ document.deletedPages
        /\ \A i, j \in 1..Len(document.pageOrder) :
                i # j => document.pageOrder[i] # document.pageOrder[j]

----------------------------------------------------------------------------
(* C6 *)

\* C6: deletePage on a display order of exactly one page changes neither
\* the document (pageOrder, deletedPages), nor the annotations, nor
\* currentPage, nor the history, nor undoStack, nor redoStack.
C6_DeleteLastPageIsNoOp ==
    [][(/\ document.loaded
        /\ Len(document.pageOrder) = 1
        /\ \E pageIndex \in PageArgs : deletePage(pageIndex))
       => UNCHANGED <<document, annotations, currentPage, operations,
                      undoStack, redoStack>>]_vars

\* A document down to one displayed page with an operation waiting on the
\* redo stack, which a recorded deletion would clear.
C6_OnePageLeftWithRedo ==
    /\ document.loaded
    /\ Len(document.pageOrder) = 1
    /\ operations # <<>>
    /\ redoStack # <<>>

----------------------------------------------------------------------------
(* C7 *)

\* What a store action hands to its caller.  Every action of EditorActions
\* is typed `=> void`: the bare `return` of a rejected call and the end of
\* the function body of an accepted call both yield undefined; no action
\* throws, and none writes loadError or any other field a caller could read.
Undefined == "undefined"

deletePageReturns(doc) ==
    IF ~DeletePageGuard(doc) THEN Undefined ELSE Undefined

updateAnnotationReturns(anns, id) ==
    IF ~HasAnnotation(anns, id) THEN Undefined ELSE Undefined

deleteAnnotationReturns(anns, id) ==
    IF ~HasAnnotation(anns, id) THEN Undefined ELSE Undefined

\* C7: a rejected call (deletePage on the last displayed page, updateAnnotation
\* or deleteAnnotation on a missing id) hands its caller an outcome that
\* differs from the outcome of the same call when it is accepted.
C7_RejectionIsReported ==
    document.loaded =>
        /\ ~DeletePageGuard(document) =>
                \A numPages \in 2..MaxPages :
                    deletePageReturns(document)
                        # deletePageReturns(LoadedDocument(numPages))
        /\ \A id \in AnnotationIds \ DOMAIN annotations :
                LET present ==
                        AddedAnnotations(annotations, NewAnnotation(id, 0))
                IN  /\ updateAnnotationReturns(annotations, id)
                            # updateAnnotationReturns(present, id)
                    /\ deleteAnnotationReturns(annotations, id)
                            # deleteAnnotationReturns(present, id)

----------------------------------------------------------------------------
(* C8 *)

\* The positions of the display order: 0..pageOrder.length-1.
DisplayPositions(doc) == 0..(Len(doc.pageOrder) - 1)

\* C8: deletePage of an index that is not in pageOrder, and reorderPages
\* with fromIndex or toIndex outside 0..pageOrder.length-1, change neither
\* the document nor the annotations and record nothing.
C8_InvalidPageOperationRejected ==
    [][/\ \A pageIndex \in PageArgs :
            (/\ document.loaded
             /\ pageIndex \notin Range(document.pageOrder)
             /\ deletePage(pageIndex))
            => UNCHANGED <<document, annotations, operations, undoStack,
                           redoStack>>
       /\ \A fromIndex \in PageArgs, toIndex \in PageArgs :
            (/\ document.loaded
             /\ ~({fromIndex, toIndex} \subseteq DisplayPositions(document))
             /\ reorderPages(fromIndex, toIndex))
            => UNCHANGED <<document, annotations, operations, undoStack,
                           redoStack>>]_vars

----------------------------------------------------------------------------
(* C9 *)

\* C9: updateAnnotation and deleteAnnotation on an id that is not a key of
\* annotations change neither the annotations, nor the selection, nor the
\* history, nor undoStack, nor redoStack.
C9_MissingAnnotationIsNoOp ==
    [][\A id \in AnnotationIds :
        (/\ id \notin DOMAIN annotations
         /\ \/ \E changes \in ChangeSets : updateAnnotation(id, changes)
            \/ deleteAnnotation(id))
        => UNCHANGED <<annotations, selectedAnnotationIds, operations,
                       undoStack, redoStack>>]_vars

\* An id that is no longer in the map, on a loaded document whose log and
\* redo stack a recorded operation would change.
C9_MissingIdWithRedo ==
    /\ document.loaded
    /\ AnnotationIds \ DOMAIN annotations # {}
    /\ operations # <<>>
    /\ redoStack # <<>>

----------------------------------------------------------------------------
(* C10 *)

\* The annotation `after` is `before` with the fields of `values` replaced
\* by their values there and every other field as it was.
OnlyFieldsSet(before, after, values) ==
    /\ DOMAIN after = DOMAIN before
    /\ \A k \in DOMAIN before :
            after[k] = IF k \in DOMAIN values THEN values[k] ELSE before[k]

\* C10: an update records, for the fields named in changes, their values
\* from before the update; undoing it sets exactly those fields of the
\* annotation to the recorded values and redoing it sets exactly those
\* fields to the values of changes; every other field and every other
\* annotation stays as it is.
C10_UpdateUndoRestoresChangedFields ==
    [][/\ \A id \in DOMAIN annotations, changes \in ChangeSets :
            updateAnnotation(id, changes) =>
                /\ Last(operations').changes = changes
                /\ Last(operations').previousState =
                        [k \in DOMAIN changes |-> annotations[id][k]]
       /\ (undo /\ undoStack # <<>>
                /\ Last(undoStack).type = "update_annotation") =>
            LET operation == Last(undoStack)
                id == operation.annotationId
            IN  /\ DOMAIN annotations' = DOMAIN annotations
                /\ id \in DOMAIN annotations
                /\ OnlyFieldsSet(annotations[id], annotations'[id],
                                 operation.previousState)
                /\ \A other \in DOMAIN annotations \ {id} :
                        annotations'[other] = annotations[other]
       /\ (redo /\ redoStack # <<>>
                /\ Last(redoStack).type = "update_annotation") =>
            LET operation == Last(redoStack)
                id == operation.annotationId
            IN  /\ DOMAIN annotations' = DOMAIN annotations
                /\ id \in DOMAIN annotations
                /\ OnlyFieldsSet(annotations[id], annotations'[id],
                                 operation.changes)
                /\ \A other \in DOMAIN annotations \ {id} :
                        annotations'[other] = annotations[other]]_vars

\* An update that changed a field has been undone: the annotation holds the
\* value recorded in previousState again, and the update waits on redoStack.
C10_ChangingUpdateUndone ==
    /\ redoStack # <<>>
    /\ Last(redoStack).type = "update_annotation"
    /\ Last(redoStack).annotationId \in DOMAIN annotations
    /\ \E k \in DOMAIN Last(redoStack).changes :
            /\ Last(redoStack).changes[k] # Last(redoStack).previousState[k]
            /\ annotations[Last(redoStack).annotationId][k]
                    = Last(redoStack).previousState[k]

----------------------------------------------------------------------------
(* The page structure alone: documents of up to MaxDisplayPages pages,     *)
(* rotated, deleted from and reordered by the page tools and the thumbnail *)
(* sidebar, with undo and redo.                                            *)

MaxDisplayPages == 3

\* rotatePage on a displayed page, by a quarter turn either way
rotateDisplayedPage ==
    /\ document.loaded
    /\ \E pageIndex \in Range(document.pageOrder), degrees \in Degrees :
            rotatePage(pageIndex, degrees)

NextPages ==
    \/ \E numPages \in 1..MaxDisplayPages : loadDocument(numPages) /\ StoreOnly
    \/ navigate /\ StoreOnly
    \/ rotateDisplayedPage /\ StoreOnly
    \/ handleDelete /\ StoreOnly
    \/ handleDragEnd /\ StoreOnly
    \/ undo /\ StoreOnly
    \/ redo /\ StoreOnly

SpecPages == Init /\ [][NextPages]_vars

----------------------------------------------------------------------------
(* C11 *)

\* C11: undoing the deletion of a displayed page takes the page out of
\* deletedPages and puts it back into pageOrder at the position it had
\* just before the deletion, whatever deletions and reorders came before.
C11_UndoDeletePageRestoresPosition ==
    (document.loaded /\ Len(document.pageOrder) > 1) =>
        \A pageIndex \in Range(document.pageOrder) :
            LET restored ==
                    undoDocument(DeletePageOperation(pageIndex),
                                 DeletedPageDocument(document, pageIndex))
            IN  /\ restored.deletedPages = document.deletedPages
                /\ restored.pageOrder = document.pageOrder

----------------------------------------------------------------------------
(* C12 *)

\* C12: reorderPages with both positions in range puts the page that was at
\* fromIndex at toIndex and keeps the other pages in their relative order
\* ([0,1,2] with (0,2) becomes [1,2,0]); undoing that operation gives the
\* display order back as it was.
C12_ReorderMovesPageAndUndoRestores ==
    /\ MovePage(<<0, 1, 2>>, 0, 2) = <<1, 2, 0>>
    /\ document.loaded =>
        \A fromIndex \in DisplayPositions(document),
           toIndex \in DisplayPositions(document) :
            LET order == document.pageOrder
                page == order[fromIndex + 1]
                reordered == ReorderedDocument(document, fromIndex, toIndex)
                moved == reordered.pageOrder
            IN  /\ Len(moved) = Len(order)
                /\ moved[toIndex + 1] = page
                /\ FilterOut(moved, page) = FilterOut(order, page)
                /\ undoDocument(ReorderPagesOperation(fromIndex, toIndex),
                                reordered).pageOrder = order

\* The scenario itself: the first of three pages was dragged to the end,
\* giving [1,2,0], and the reorder has been undone.
C12_ReorderToEndUndone ==
    /\ document.loaded
    /\ document.pageOrder = <<0, 1, 2>>
    /\ undoStack = <<>>
    /\ Len(redoStack) = 1
    /\ redoStack[1].type = "reorder_pages"
    /\ redoStack[1].fromIndex = 0
    /\ redoStack[1].toIndex = 2
    /\ redoDocument(redoStack[1], document).pageOrder = <<1, 2, 0>>

----------------------------------------------------------------------------
(* C13 *)

\* C13: rotatePage records the rotation the page had before it, and undoing
\* a rotate_page operation sets the rotation of its page to exactly that
\* recorded value and leaves the rotation of every other page alone.
C13_UndoRotateRestoresPreviousRotation ==
    [][/\ \A pageIndex \in PageArgs, degrees \in Degrees :
            (document.loaded /\ rotatePage(pageIndex, degrees)) =>
                /\ Last(undoStack').type = "rotate_page"
                /\ Last(undoStack').pageIndex = pageIndex
                /\ Last(undoStack').previousRotation
                        = RotationOf(document, pageIndex)
       /\ (undo /\ undoStack # <<>> /\ document.loaded
                /\ Last(undoStack).type = "rotate_page") =>
            /\ RotationOf(document', Last(undoStack).pageIndex)
                    = Last(undoStack).previousRotation
            /\ \A other \in 0..MaxDisplayPages :
                    other # Last(undoStack).pageIndex =>
                        RotationOf(document', other)
                            = RotationOf(document, other)]_vars

\* The scenario: a page rotated by 90 twice and the second rotation undone;
\* the page stands at 90.
C13_SecondQuarterTurnUndone ==
    /\ document.loaded
    /\ Len(undoStack) = 1
    /\ Len(redoStack) = 1
    /\ undoStack[1].type = "rotate_page"
    /\ redoStack[1].type = "rotate_page"
    /\ undoStack[1].rotation = 90
    /\ redoStack[1].rotation = 90
    /\ undoStack[1].pageIndex = redoStack[1].pageIndex
    /\ redoStack[1].previousRotation = 90
    /\ RotationOf(document, redoStack[1].pageIndex) = 90

----------------------------------------------------------------------------
(* C14 *)

\* C14: every stored page rotation lies in [0, 360), and applying a delta
\* to a page stores (((prev + delta) % 360) + 360) % 360.
C14_RotationsAreNormalized ==
    document.loaded =>
        /\ \A pageIndex \in DOMAIN document.pageRotations :
                /\ 0 <= document.pageRotations[pageIndex]
                /\ document.pageRotations[pageIndex] < 360
        /\ \A pageIndex \in Range(document.pageOrder), degrees \in Degrees :
                RotationOf(RotatedDocument(document, pageIndex, degrees),
                           pageIndex)
                    = JsRem(JsRem(RotationOf(document, pageIndex) + degrees,
                                  360) + 360, 360)

----------------------------------------------------------------------------
(* C15 *)

\* Every annotation of the map, deleted and the deletion undone, is back
\* exactly as it is now, and redone is gone again; every annotation that can
\* be added, added and the addition undone, is gone, and redone is back.
AnnotationInverses ==
    /\ \A id \in DOMAIN annotations :
            LET operation == DeleteAnnotationOperation(annotations, id)
                deleted == MapDelete(annotations, id)
                restored == undoAnnotations(operation, deleted)
            IN  /\ id \notin DOMAIN deleted
                /\ restored = annotations
                /\ redoAnnotations(operation, restored) = deleted
    /\ \A id \in FreshAnnotationIds, pageIndex \in 0..(MaxPages - 1) :
            LET annotation == NewAnnotation(id, pageIndex)
                operation == AddAnnotationOperation(annotation)
                added == AddedAnnotations(annotations, annotation)
                removed == undoAnnotations(operation, added)
            IN  /\ added[id] = annotation
                /\ removed = annotations
                /\ redoAnnotations(operation, removed) = added

\* The steps of undo and redo on add_annotation and delete_annotation
\* operations, and the snapshot deleteAnnotation records.
AnnotationInverseSteps ==
    /\ \A id \in DOMAIN annotations :
            deleteAnnotation(id) =>
                /\ Last(undoStack').annotation = annotations[id]
                /\ id \notin DOMAIN annotations'
    /\ (undo /\ undoStack # <<>>) =>
            LET operation == Last(undoStack)
            IN  /\ operation.type = "add_annotation" =>
                        annotations' =
                            MapDelete(annotations, operation.annotation.id)
                /\ operation.type = "delete_annotation" =>
                        annotations' =
                            MapSet(annotations, operation.annotation.id,
                                   operation.annotation)
    /\ (redo /\ redoStack # <<>>) =>
            LET operation == Last(redoStack)
            IN  /\ operation.type = "add_annotation" =>
                        annotations' =
                            MapSet(annotations, operation.annotation.id,
                                   operation.annotation)
                /\ operation.type = "delete_annotation" =>
                        annotations' =
                            MapDelete(annotations, operation.annotation.id)

\* C15: undoing an add_annotation removes the annotation with that id;
\* undoing a delete_annotation re-inserts the whole annotation as it was
\* just before the deletion, edits of earlier updates included; redo of
\* each does the opposite.
C15_AddDeleteAnnotationInverses ==
    []AnnotationInverses /\ [][AnnotationInverseSteps]_vars

\* An annotation was deleted and the deletion has been
\* undone: the recorded annotation is in the map again, field for field.
C15_DeletedAnnotationResurrected ==
    /\ redoStack # <<>>
    /\ Last(redoStack).type = "delete_annotation"
    /\ Last(redoStack).annotation.id \in DOMAIN annotations
    /\ annotations[Last(redoStack).annotation.id] = Last(redoStack).annotation

----------------------------------------------------------------------------
(* C16 *)

\* `history` is the beginning of `longer`.
IsPrefix(history, longer) ==
    /\ Len(history) <= Len(longer)
    /\ SubSeq(longer, 1, Len(history)) = history

\* C16: as long as no document is loaded or closed, every step keeps the
\* operations recorded so far at the head of the history, in their order,
\* and the steps of undo and redo leave the history as it is.
C16_HistoryIsAppendOnly ==
    [][/\ (\/ \E numPages \in 1..MaxPages : loadDocument(numPages)
           \/ closeDocument
           \/ IsPrefix(operations, operations'))
       /\ (undo \/ redo) => operations' = operations]_vars

\* Two operations recorded and one of them undone: the history still holds
\* both.
C16_HistoryKeptAcrossUndo ==
    /\ document.loaded
    /\ Len(operations) = 2
    /\ Len(undoStack) = 1
    /\ Len(redoStack) = 1
    /\ operations = undoStack \o redoStack

----------------------------------------------------------------------------
(* C17 *)

\* The forward mutations of the operations of `stack`, applied in order as
\* redo applies them.
RECURSIVE ReplayAnnotations(_, _)
ReplayAnnotations(stack, anns) ==
    IF stack = <<>>
    THEN anns
    ELSE ReplayAnnotations(Tail(stack), redoAnnotations(Head(stack), anns))

RECURSIVE ReplayDocument(_, _)
ReplayDocument(stack, doc) ==
    IF stack = <<>>
    THEN doc
    ELSE ReplayDocument(Tail(stack), redoDocument(Head(stack), doc))

\* C17: replaying the operations of undoStack, in order, on the freshly
\* loaded model gives the current annotations, rotations, deleted pages and
\* display order.
C17_UndoStackReplaysToCurrentModel ==
    document.loaded =>
        SameModel(ReplayAnnotations(undoStack, EmptyMap),
                  ReplayDocument(undoStack, LoadedDocument(document.numPages)),
                  annotations, document)

----------------------------------------------------------------------------
(* C18 *)

\* The operations that do not restructure the pages.
KeepsPageStructure(operation) ==
    operation.type \in {"add_annotation", "update_annotation",
                        "delete_annotation", "rotate_page"}

PageStructureUnchanged ==
    /\ document'.deletedPages = document.deletedPages
    /\ document'.pageOrder = document.pageOrder

\* C18: the steps of addAnnotation, updateAnnotation, deleteAnnotation and
\* rotatePage, and the undo and redo of their operations, leave deletedPages
\* and pageOrder as they are; a step of rotatePage changes the rotation of
\* no page but the one it names, and neither annotations nor currentPage.
C18_PageStructureFrame ==
    [][/\ (\/ \E id \in AnnotationIds, pageIndex \in 0..MaxDisplayPages :
                addAnnotation(NewAnnotation(id, pageIndex))
           \/ \E id \in AnnotationIds, changes \in ChangeSets :
                updateAnnotation(id, changes)
           \/ \E id \in AnnotationIds : deleteAnnotation(id))
          => PageStructureUnchanged
       /\ \A pageIndex \in 0..MaxDisplayPages, degrees \in Degrees :
            rotatePage(pageIndex, degrees) =>
                /\ PageStructureUnchanged
                /\ document'.numPages = document.numPages
                /\ \A other \in 0..MaxDisplayPages :
                        other # pageIndex =>
                            RotationOf(document', other)
                                = RotationOf(document, other)
                /\ UNCHANGED <<annotations, currentPage,
                               selectedAnnotationIds>>
       /\ (undo /\ undoStack # <<>> /\ KeepsPageStructure(Last(undoStack)))
          => PageStructureUnchanged
       /\ (redo /\ redoStack # <<>> /\ KeepsPageStructure(Last(redoStack)))
          => PageStructureUnchanged]_vars

\* A page has been rotated after the display order was changed by a
\* reorder: the order is still the changed one.
C18_RotatedAfterReorder ==
    /\ document.loaded
    /\ Len(undoStack) = 2
    /\ undoStack[1].type = "reorder_pages"
    /\ undoStack[2].type = "rotate_page"
    /\ document.pageOrder # InitialPageOrder(Len(document.pageOrder))

----------------------------------------------------------------------------
(* C19 *)

\* The editor's gestures together with closing the document.
NextLifecycle ==
    \/ NextUI
    \/ closeDocument /\ StoreOnly

SpecLifecycle == Init /\ [][NextLifecycle]_vars

\* C19: whatever the state before, loadDocument leaves a model with no
\* annotation, an empty history, empty undo and redo stacks, no rotation,
\* no deleted page and the pages 0..numPages-1 in order; closeDocument
\* leaves no document, no annotation, an empty history, empty stacks and an
\* empty selection; after either canUndo() and canRedo() are false.
C19_LoadCreatesCloseTearsDown ==
    [][/\ \A numPages \in 1..MaxPages :
            loadDocument(numPages) =>
                /\ document'.loaded
                /\ document'.numPages = numPages
                /\ document'.pageRotations = EmptyMap
                /\ document'.deletedPages = {}
                /\ Len(document'.pageOrder) = numPages
                /\ \A i \in 1..numPages : document'.pageOrder[i] = i - 1
                /\ annotations' = EmptyMap
                /\ operations' = <<>>
                /\ undoStack' = <<>>
                /\ redoStack' = <<>>
                /\ ~canUndo'
                /\ ~canRedo'
       /\ closeDocument =>
                /\ ~document'.loaded
                /\ document' = NullDocument
                /\ annotations' = EmptyMap
                /\ operations' = <<>>
                /\ undoStack' = <<>>
                /\ redoStack' = <<>>
                /\ selectedAnnotationIds' = {}
                /\ ~canUndo'
                /\ ~canRedo']_vars

\* A document loaded over one that had a selected annotation: the model is
\* empty, only the selection is the old one.
C19_LoadedOverEditedDocument ==
    /\ document.loaded
    /\ annotations = EmptyMap
    /\ operations = <<>>
    /\ undoStack = <<>>
    /\ redoStack = <<>>
    /\ selectedAnnotationIds # {}

----------------------------------------------------------------------------
(* Export: lib/pdf/export.ts, exportPDF as handleExport calls it with the  *)
(* store's document.  A page of the output is named by the original index  *)
(* of the page it is a copy of.                                            *)

\* Array.from(deletedPages).sort((a, b) => b - a)
RECURSIVE SortedDescending(_)
SortedDescending(indices) ==
    IF indices = {}
    THEN <<>>
    ELSE LET largest == CHOOSE i \in indices : \A j \in indices : j <= i
         IN  <<largest>> \o SortedDescending(indices \ {largest})

\* for (const pageIndex of pagesToDelete)
\*   if (pageIndex < pages.length) pdfDoc.removePage(pageIndex)
RECURSIVE RemovePages(_, _, _)
RemovePages(pages, pagesToDelete, originalLength) ==
    IF pagesToDelete = <<>>
    THEN pages
    ELSE RemovePages(IF Head(pagesToDelete) < originalLength
                     THEN SpliceRemove(pages, Head(pagesToDelete))
                     ELSE pages,
                     Tail(pagesToDelete), originalLength)

\* The pages of the exported document: the pages of the loaded file with
\* the deleted ones removed.  options.pageOrder is not read: "For MVP, we
\* skip reordering in export".
ExportedPages(doc) ==
    RemovePages(InitialPageOrder(doc.numPages),
                SortedDescending(doc.deletedPages), doc.numPages)

----------------------------------------------------------------------------
(* C20 *)

\* C20: the exported document has the surviving pages in display order:
\* its page k is the original page pageOrder[k].
C20_ExportFollowsDisplayOrder ==
    document.loaded => ExportedPages(document) = document.pageOrder

----------------------------------------------------------------------------
(* Export of the annotations: the drawing loop of exportPDF.  handleExport *)
(* passes Array.from(annotations.values()), the annotations in the order   *)
(* the Map holds them.                                                     *)

\* An adjustment that leaves the original page index as it is.
UnadjustedIndex(pageIndex, deletedPages) == pageIndex

\* let adjustedIndex = pageIndex
\* for (const deleted of sorted deletedPages)
\*   if (deleted < pageIndex) adjustedIndex--
\* An index lowered by every deleted page, the later ones included.
LoweredByAllDeleted(pageIndex, deletedPages) ==
    pageIndex - Cardinality(deletedPages)

AdjustedIndex(pageIndex, deletedPages) ==
    pageIndex - Cardinality({deleted \in deletedPages : deleted < pageIndex})

\* The annotations exportPDF draws, in the order it draws them, each with
\* the index of the output page it is drawn on:
\*   if (deletedPages.has(pageIndex)) continue
\*   if (adjustedIndex < 0 || adjustedIndex >= remainingPages.length) continue
\*   const page = remainingPages[adjustedIndex]
RECURSIVE DrawnAnnotations(_, _)
DrawnAnnotations(annotationList, doc) ==
    IF annotationList = <<>>
    THEN <<>>
    ELSE LET annotation == Head(annotationList)
             rest == DrawnAnnotations(Tail(annotationList), doc)
             adjustedIndex ==
                 AdjustedIndex(annotation.pageIndex, doc.deletedPages)
         IN  IF annotation.pageIndex \in doc.deletedPages
             THEN rest
             ELSE IF adjustedIndex < 0
                     \/ adjustedIndex >= Len(ExportedPages(doc))
             THEN rest
             ELSE <<[annotation |-> annotation, page |-> adjustedIndex]>>
                      \o rest

\* Array.from(annotations.values()), for an order of the Map's keys
AnnotationsArray(order) == [i \in 1..Len(order) |-> annotations[order[i]]]

----------------------------------------------------------------------------
(* C21 *)

----------------------------------------------------------------------------
(* Export of the rotations *)

\* The rotation exportPDF adds to the output page at position idx (0-based)
\* of remainingPages:
\*   for (const [pageIndex, rotation] of Object.entries(pageRotations))
\*     const idx = parseInt(pageIndex)
\*     if (idx < remainingPages.length && rotation !== 0)
\*       page = remainingPages[idx]; page.setRotation(current + rotation)
ExportedRotation(doc, idx) ==
    IF /\ idx \in DOMAIN doc.pageRotations
       /\ idx < Len(ExportedPages(doc))
       /\ doc.pageRotations[idx] # 0
    THEN doc.pageRotations[idx]
    ELSE 0

----------------------------------------------------------------------------
(* C22 *)

\* C22: every page of the exported document is given the rotation that
\* pageRotations holds for the original page it is a copy of, and no other.
C22_ExportRotatesOwnPage ==
    document.loaded =>
        \A idx \in 0..(Len(ExportedPages(document)) - 1) :
            ExportedRotation(document, idx)
                = RotationOf(document, ExportedPages(document)[idx + 1])

----------------------------------------------------------------------------
(* The export handler of the editor route: routes/editor.$docId.tsx,       *)
(* handleExport.  exportPDF loads a fresh PDFDocument from pdfData and      *)
(* works on it; of the store it only reads.                                 *)

\* What exportPDF returns and downloadPDF hands to the browser: the pages,
\* the rotation added to each, the annotations drawn.
exportPDF(doc, annotationList) ==
    [outcome |-> "downloaded",
     pages |-> ExportedPages(doc),
     rotations |-> [idx \in 0..(Len(ExportedPages(doc)) - 1) |->
                        ExportedRotation(doc, idx)],
     drawn |-> DrawnAnnotations(annotationList, doc)]

\* catch (err): console.error('Export failed:', err) and an alert
ExportFailed == [outcome |-> "failed"]

\* An export that empties the deletedPages it was handed while removing the
\* pages, and drops the undo history when it fails.
handleExportConsuming ==
    /\ document.loaded
    /\ \/ /\ \E order \in Orders(DOMAIN annotations) :
                exported' = exportPDF(document, AnnotationsArray(order))
          /\ document' = [document EXCEPT !.deletedPages = {}]
          /\ UNCHANGED undoStack
       \/ /\ exported' = ExportFailed
          /\ undoStack' = <<>>
          /\ UNCHANGED document
    /\ UNCHANGED <<currentPage, annotations, selectedAnnotationIds,
                   operations, redoStack>>
    /\ UNCHANGED <<storedDocument, storedAnnotations, saveTimeouts,
                   sinceMutation, burst, writes, geometry,
                   scale, scaleMode, backend, load>>

\* if (!storeDocument?.pdfData) return
\* try { exportPDF(...); downloadPDF(...) } catch (err) { ... }
\* PDFDocument.load, embedFont, the draw functions, save and downloadPDF can
\* each throw.  No store action is called and no object of the store is
\* written: the two sorts work on Array.from copies of deletedPages.
handleExport ==
    /\ document.loaded
    /\ \/ \E order \in Orders(DOMAIN annotations) :
                exported' = exportPDF(document, AnnotationsArray(order))
       \/ exported' = ExportFailed
    /\ UNCHANGED vars
    /\ UNCHANGED <<storedDocument, storedAnnotations, saveTimeouts,
                   sinceMutation, burst, writes, geometry,
                   scale, scaleMode, backend, load>>

NextExport ==
    \/ NextUI
    \/ handleExport

SpecExport == Init /\ [][NextExport]_allVars

----------------------------------------------------------------------------
(* C23 *)

\* C23: an export, whether it hands back a document or fails, leaves the
\* model as it was: annotations, pageRotations, deletedPages, pageOrder,
\* the history, the undo stack and the redo stack.
C23_ExportLeavesModelUntouched ==
    [][(exported' # exported) =>
            /\ annotations' = annotations
            /\ document' = document
            /\ operations' = operations
            /\ undoStack' = undoStack
            /\ redoStack' = redoStack]_allVars

\* The export of a model with a deleted page, an annotation that is drawn
\* and operations to undo has been downloaded, and the model is still the
\* one that was exported.
C23_ExportedEditedModel ==
    /\ document.loaded
    /\ document.deletedPages # {}
    /\ Len(undoStack) = MaxOps
    /\ exported.outcome = "downloaded"
    /\ exported.drawn # <<>>
    /\ \E order \in Orders(DOMAIN annotations) :
            exported = exportPDF(document, AnnotationsArray(order))

----------------------------------------------------------------------------
(* Persistence: lib/storage.ts (IndexedDB through Dexie), the auto-save    *)
(* effect useAutoSave of hooks/useHistory.ts and the loading functions of  *)
(* hooks/usePDFDocument.ts.  The editor works on one document, so the      *)
(* tables are modelled by its rows.                                        *)

\* saveDocument as loadFromFile calls it for a new file:
\*   pageRotations: {}, deletedPages: [], pageOrder: [0 .. numPages - 1]
NewStoredDocument(numPages) ==
    [stored |-> TRUE, numPages |-> numPages, pageRotations |-> EmptyMap,
     deletedPages |-> <<>>, pageOrder |-> InitialPageOrder(numPages)]

\* The row saveAnnotations builds for an annotation.  data is
\* JSON.stringify(a): the fields of an annotation are numbers and strings,
\* which JSON.parse gives back as they were.
StoredAnnotation(a) ==
    [id |-> a.id, pageIndex |-> a.pageIndex, data |-> a,
     updatedAt |-> a.updatedAt]

\* db.annotations.bulkPut(stored): a row is added or replaces the row with
\* the same id; no row is removed.
bulkPut(table, stored) ==
    [id \in (DOMAIN table) \cup (DOMAIN stored) |->
        IF id \in DOMAIN stored THEN stored[id] ELSE table[id]]

\* saveAnnotations(documentId, Array.from(annotations.values()))
saveAnnotations(table, anns) ==
    bulkPut(table, [id \in DOMAIN anns |-> StoredAnnotation(anns[id])])

\* getAnnotations(documentId), each set into the Map under annotation.id
getAnnotations(table) ==
    [id \in {table[row].data.id : row \in DOMAIN table} |->
        table[CHOOSE row \in DOMAIN table : table[row].data.id = id].data]

\* loadFromStorageInternal: loadDocument(data, hash, numPages), then
\*   store.document.pageRotations = storedDoc.pageRotations
\*   store.document.deletedPages = new Set(storedDoc.deletedPages)
\*   store.document.pageOrder = storedDoc.pageOrder
RestoredDocument(storedDoc) ==
    [LoadedDocument(storedDoc.numPages) EXCEPT
        !.pageRotations = storedDoc.pageRotations,
        !.deletedPages = Range(storedDoc.deletedPages),
        !.pageOrder = storedDoc.pageOrder]

\* An effect that sets its timeout without clearing the one before.
ScheduledTimeoutsUncleared(timeouts, snapshot) ==
    timeouts \cup {[annotations |-> snapshot, remaining |-> debounceMs]}

\* useAutoSave's effect: the cleanup of the previous run clears its
\* timeout, then setTimeout(..., debounceMs) with the annotations Map of
\* this render in its closure.
ScheduledTimeouts(timeouts, snapshot) ==
    {[annotations |-> snapshot, remaining |-> debounceMs]}

\* The store has replaced annotations or document: every set() of a
\* recording action, of undo and of redo builds a new Map or a new document
\* object, and changes the history or the stacks.
Rendered ==
    \/ annotations' # annotations
    \/ document' # document
    \/ operations' # operations
    \/ undoStack' # undoStack
    \/ redoStack' # redoStack

\* The renders of the burst, this one included: the burst goes on while
\* each render follows the one before within the delay.  The count stops at
\* MaxBurst.
MaxBurst == 2

NextBurst == IF sinceMutation < debounceMs THEN Min(burst + 1, MaxBurst) ELSE 1

\* useAutoSave(docId, 2000), run by React after a store step:
\*   deps [annotations, documentId, document, debounceMs]
\*   if (!documentId || !document) return
useAutoSave ==
    IF Rendered
    THEN /\ saveTimeouts' =
                IF document'.loaded
                THEN ScheduledTimeouts(saveTimeouts, annotations')
                ELSE {}
         /\ sinceMutation' = 0
         /\ burst' = NextBurst
         /\ writes' = <<>>
    ELSE UNCHANGED <<saveTimeouts, sinceMutation, burst, writes>>

\* A gesture in the editor route: the store step, then the effect.
afterRender ==
    /\ useAutoSave
    /\ UNCHANGED <<storedDocument, storedAnnotations, exported, geometry,
                   scale, scaleMode, backend, load>>

\* loadFromFile for a file not in the database (getDocumentByHash finds
\* nothing): loadDocument, then saveDocument.
loadFromFile(numPages) ==
    /\ ~storedDocument.stored
    /\ loadDocument(numPages)
    /\ storedDocument' = NewStoredDocument(numPages)
    /\ saveTimeouts' = ScheduledTimeouts(saveTimeouts, annotations')
    /\ sinceMutation' = 0
    /\ burst' = NextBurst
    /\ writes' = <<>>
    /\ UNCHANGED <<storedAnnotations, exported, geometry,
                   scale, scaleMode, backend, load>>

\* loadFromStorage(docId), the editor route opening a stored document.  The
\* rows are set into the Map loadDocument has just put in the store, the
\* Map the effect's timeout holds.
loadFromStorage ==
    /\ storedDocument.stored
    /\ document' = RestoredDocument(storedDocument)
    /\ annotations' = getAnnotations(storedAnnotations)
    /\ currentPage' = 1
    /\ operations' = <<>>
    /\ undoStack' = <<>>
    /\ redoStack' = <<>>
    /\ UNCHANGED selectedAnnotationIds
    /\ saveTimeouts' = ScheduledTimeouts(saveTimeouts, annotations')
    /\ sinceMutation' = 0
    /\ burst' = NextBurst
    /\ writes' = <<>>
    /\ UNCHANGED <<storedDocument, storedAnnotations, exported, geometry,
                   scale, scaleMode, backend, load>>

\* Time passes by one unit; a timeout that is due runs first.
tick ==
    /\ \A timeout \in saveTimeouts : timeout.remaining > 0
    /\ saveTimeouts # {} \/ sinceMutation < debounceMs
    /\ saveTimeouts' =
            {[timeout EXCEPT !.remaining = @ - 1] : timeout \in saveTimeouts}
    /\ sinceMutation' = Min(sinceMutation + 1, debounceMs)
    /\ UNCHANGED vars
    /\ UNCHANGED <<storedDocument, storedAnnotations, burst, writes,
                   exported, geometry,
                   scale, scaleMode, backend, load>>

\* The timeout's callback, saveAnnotations resolving.
\* updateDocumentTimestamp changes only updatedAt of the document row.
autoSaved(timeout) ==
    /\ saveTimeouts' = saveTimeouts \ {timeout}
    /\ storedAnnotations' =
            saveAnnotations(storedAnnotations, timeout.annotations)
    /\ writes' = Append(writes, [annotations |-> timeout.annotations,
                                 outcome |-> "saved"])
    /\ UNCHANGED vars
    /\ UNCHANGED <<storedDocument, sinceMutation, burst, exported, geometry,
                   scale, scaleMode, backend, load>>

\* A failed write that takes back the last operation and sets no timeout
\* again.
autoSaveFailedRollingBack(timeout) ==
    /\ saveTimeouts' = saveTimeouts \ {timeout}
    /\ writes' = Append(writes, [annotations |-> timeout.annotations,
                                 outcome |-> "failed"])
    /\ undo
    /\ UNCHANGED <<storedDocument, storedAnnotations, sinceMutation,
                   burst, exported, geometry,
                   scale, scaleMode, backend, load>>

\* The timeout's callback, the import or a write rejecting:
\*   catch (error) { console.error('Auto-save failed:', error) }
autoSaveFailed(timeout) ==
    /\ saveTimeouts' = saveTimeouts \ {timeout}
    /\ writes' = Append(writes, [annotations |-> timeout.annotations,
                                 outcome |-> "failed"])
    /\ UNCHANGED vars
    /\ UNCHANGED <<storedDocument, storedAnnotations, sinceMutation,
                   burst, exported, geometry,
                   scale, scaleMode, backend, load>>

autoSave ==
    \E timeout \in saveTimeouts :
        /\ timeout.remaining = 0
        /\ \/ autoSaved(timeout)
           \/ autoSaveFailed(timeout)

NextAutoSave ==
    \/ \E numPages \in 1..MaxPages : loadFromFile(numPages)
    \/ loadFromStorage
    \/ handleRotate /\ afterRender
    \/ handleDelete /\ afterRender
    \/ handleDragEnd /\ afterRender
    \/ drawAnnotation /\ afterRender
    \/ editAnnotation /\ afterRender
    \/ clickAnnotation /\ afterRender
    \/ pressDelete /\ afterRender
    \/ undo /\ afterRender
    \/ redo /\ afterRender
    \/ tick
    \/ autoSave

SpecAutoSave == Init /\ [][NextAutoSave]_allVars

\* A write has completed since the model last changed.
Saved == writes # <<>> /\ Last(writes).outcome = "saved"

----------------------------------------------------------------------------
(* C24 *)

\* C24: once an auto-save has completed after the last edit, loading the
\* document from storage gives the model of that moment: the same
\* annotations, none of them one that was deleted before the save, and the
\* same rotations, deleted pages and display order.
C24_ReloadRestoresSavedModel ==
    (document.loaded /\ Saved) =>
        SameModel(getAnnotations(storedAnnotations),
                  RestoredDocument(storedDocument),
                  annotations, document)

----------------------------------------------------------------------------
(* C25 *)

\* C25: the auto-save is debounced.  Between two changes of the model at
\* most one write is started, so a burst of changes that follow each other
\* within the delay gives one write; until it starts, the one timeout that
\* is set carries the annotations of the last change and is due when the
\* delay has passed since that change; and the write starts only then and
\* with those annotations.
C25_DebouncedAutoSave ==
    /\ [](Len(writes) <= 1)
    /\ []((document.loaded /\ writes = <<>>) =>
            saveTimeouts = {[annotations |-> annotations,
                             remaining |-> debounceMs - sinceMutation]})
    /\ [][(writes' # writes /\ writes' # <<>>) =>
            /\ sinceMutation = debounceMs
            /\ writes' = <<Last(writes')>>
            /\ Last(writes').annotations = annotations]_allVars

\* A burst of two changes has been followed by its one write, which carried
\* the annotations as the second change left them.
C25_BurstWrittenOnce ==
    /\ burst = MaxBurst
    /\ Len(operations) = 2
    /\ annotations # EmptyMap
    /\ Len(writes) = 1
    /\ Saved
    /\ Last(writes).annotations = annotations
    /\ getAnnotations(storedAnnotations) = annotations

----------------------------------------------------------------------------
(* C26 *)

\* The last write started since the model changed was rejected and logged.
Failed == writes # <<>> /\ Last(writes).outcome = "failed"

\* C26: a write that fails is only logged.  The step of the failure leaves
\* annotations, page state, history, undo stack and redo stack as they
\* were; after it undo, redo and the page tools are as available as the
\* store alone makes them, and a step that changes the store is one of the
\* store's own steps; and the next change of the model sets a new timeout
\* for the full delay with the changed annotations.
C26_FailedWriteOnlyLogged ==
    /\ [][(Failed' /\ writes' # writes) => UNCHANGED vars]_allVars
    /\ [](Failed =>
            /\ canUndo => ENABLED (undo /\ afterRender)
            /\ canRedo => ENABLED (redo /\ afterRender)
            /\ (CurrentPageIndex >= 0 /\ Len(operations) < MaxOps) =>
                    ENABLED (handleRotate /\ afterRender))
    /\ [][(Failed /\ vars' # vars) =>
            \/ EditGesture
            \/ clickAnnotation
            \/ undo
            \/ redo
            \/ loadFromStorage]_allVars
    /\ [][(Failed /\ (operations' # operations \/ undoStack' # undoStack)) =>
            /\ saveTimeouts' = {[annotations |-> annotations',
                                 remaining |-> debounceMs]}
            /\ writes' = <<>>]_allVars

\* A write of an edited model has failed: nothing is stored, and the model
\* and its undo stack are as the edits left them.
C26_WriteOfEditedModelFailed ==
    /\ Failed
    /\ Len(writes) = 1
    /\ Last(writes).annotations = annotations
    /\ annotations # EmptyMap
    /\ storedAnnotations = EmptyMap
    /\ Len(undoStack) = MaxOps
    /\ saveTimeouts = {}

----------------------------------------------------------------------------
(* Geometry utilities: lib/geometry.ts.  The functions are pure; their     *)
(* arithmetic is modelled exactly, a number being a fraction n / d with    *)
(* d > 0.                                                                   *)

Q(n) == [n |-> n, d |-> 1]

\* q / k for an integer k other than 0
QDivInt(q, k) ==
    IF k > 0
    THEN [n |-> q.n, d |-> q.d * k]
    ELSE [n |-> -q.n, d |-> -(q.d * k)]

QMulInt(k, q) == [n |-> k * q.n, d |-> q.d]
QAdd(p, q) == [n |-> p.n * q.d + q.n * p.d, d |-> p.d * q.d]
QSub(p, q) == [n |-> p.n * q.d - q.n * p.d, d |-> p.d * q.d]
QLess(p, q) == p.n * q.d < q.n * p.d
QEq(p, q) == p.n * q.d = q.n * p.d

\* Math.min, Math.abs
QMin(p, q) == IF QLess(q, p) THEN q ELSE p
QAbs(p) == [n |-> IF p.n < 0 THEN -p.n ELSE p.n, d |-> p.d]

\* Bounds of the rectangles and viewports
MaxCoordinate == 1
MaxExtent == 2
MaxScale == 2

\* The rectangles the editor builds have width = maxX - minX and
\* height = maxY - minY.
Rects ==
    {[x |-> Q(x), y |-> Q(y), width |-> Q(w), height |-> Q(h)] :
        x \in 0..MaxCoordinate, y \in 0..MaxCoordinate,
        w \in 0..MaxExtent, h \in 0..MaxExtent}

\* The linear part of a PageViewport's transform at scale 1: the rotations
\* by 0, 90, 180 and 270 degrees with the y axis flipped (PDF space has its
\* origin at the bottom left), and the same without the flip.
Orientations ==
    {<<1, 0, 0, -1>>, <<0, 1, 1, 0>>, <<-1, 0, 0, 1>>, <<0, -1, -1, 0>>,
     <<1, 0, 0, 1>>, <<0, 1, -1, 0>>, <<-1, 0, 0, -1>>, <<0, -1, 1, 0>>}

\* The translations of the transform
Offsets == {<<0, 0>>, <<3, 5>>}

\* viewport.transform = [a, b, c, d, e, f]
Viewports ==
    {[a |-> o[1] * zoom, b |-> o[2] * zoom, c |-> o[3] * zoom,
      d |-> o[4] * zoom, e |-> offset[1], f |-> offset[2]] :
        o \in Orientations, zoom \in 1..MaxScale, offset \in Offsets}

\* viewport.convertToViewportPoint(x, y): the transform applied
\*   [a x + c y + e, b x + d y + f]
convertToViewportPoint(point, viewport) ==
    [x |-> QAdd(QAdd(QMulInt(viewport.a, point.x),
                     QMulInt(viewport.c, point.y)), Q(viewport.e)),
     y |-> QAdd(QAdd(QMulInt(viewport.b, point.x),
                     QMulInt(viewport.d, point.y)), Q(viewport.f))]

\* viewport.convertToPdfPoint(x, y): the inverse transform applied
\*   [(d (x - e) - c (y - f)) / det, (a (y - f) - b (x - e)) / det]
convertToPdfPoint(point, viewport) ==
    LET det == viewport.a * viewport.d - viewport.b * viewport.c
        dx == QSub(point.x, Q(viewport.e))
        dy == QSub(point.y, Q(viewport.f))
    IN  [x |-> QDivInt(QSub(QMulInt(viewport.d, dx),
                            QMulInt(viewport.c, dy)), det),
         y |-> QDivInt(QSub(QMulInt(viewport.a, dy),
                            QMulInt(viewport.b, dx)), det)]

viewportToPdf(viewportPoint, viewport) ==
    convertToPdfPoint(viewportPoint, viewport)

pdfToViewport(pdfPoint, viewport) ==
    convertToViewportPoint(pdfPoint, viewport)

\* The corner { x: rect.x + rect.width, y: rect.y + rect.height }
FarCorner(rect) ==
    [x |-> QAdd(rect.x, rect.width), y |-> QAdd(rect.y, rect.height)]

NearCorner(rect) == [x |-> rect.x, y |-> rect.y]

\* A conversion that keeps the converted corners as they come.
rectViewportToPdfUnnormalized(rect, viewport) ==
    LET topLeft == viewportToPdf(NearCorner(rect), viewport)
        bottomRight == viewportToPdf(FarCorner(rect), viewport)
    IN  [x |-> topLeft.x,
         y |-> topLeft.y,
         width |-> QSub(bottomRight.x, topLeft.x),
         height |-> QSub(bottomRight.y, topLeft.y)]

rectViewportToPdf(rect, viewport) ==
    LET topLeft == viewportToPdf(NearCorner(rect), viewport)
        bottomRight == viewportToPdf(FarCorner(rect), viewport)
    IN  [x |-> QMin(topLeft.x, bottomRight.x),
         y |-> QMin(topLeft.y, bottomRight.y),
         width |-> QAbs(QSub(bottomRight.x, topLeft.x)),
         height |-> QAbs(QSub(bottomRight.y, topLeft.y))]

\* A conversion that keeps the converted corners as they come.
rectPdfToViewportUnnormalized(rect, viewport) ==
    LET topLeft == pdfToViewport(NearCorner(rect), viewport)
        bottomRight == pdfToViewport(FarCorner(rect), viewport)
    IN  [x |-> topLeft.x,
         y |-> topLeft.y,
         width |-> QSub(bottomRight.x, topLeft.x),
         height |-> QSub(bottomRight.y, topLeft.y)]

rectPdfToViewport(rect, viewport) ==
    LET topLeft == pdfToViewport(NearCorner(rect), viewport)
        bottomRight == pdfToViewport(FarCorner(rect), viewport)
    IN  [x |-> QMin(topLeft.x, bottomRight.x),
         y |-> QMin(topLeft.y, bottomRight.y),
         width |-> QAbs(QSub(bottomRight.x, topLeft.x)),
         height |-> QAbs(QSub(bottomRight.y, topLeft.y))]

\* The calls the model makes: a rectangle and a viewport, then one of the two
\* conversions, then the conversion to the view converted back.
InitRects ==
    /\ InitEditor
    /\ geometry \in {[call |-> "arguments", rect |-> rect,
                      viewport |-> viewport, result |-> rect] :
                        rect \in Rects, viewport \in Viewports}

callRectViewportToPdf ==
    /\ geometry.call = "arguments"
    /\ geometry' =
            [geometry EXCEPT
                !.call = "rectViewportToPdf",
                !.result = rectViewportToPdf(geometry.rect,
                                             geometry.viewport)]
    /\ UNCHANGED vars
    /\ UNCHANGED <<storedDocument, storedAnnotations, saveTimeouts,
                   sinceMutation, burst, writes, exported,
                   scale, scaleMode, backend, load>>

callRectPdfToViewport ==
    /\ geometry.call = "arguments"
    /\ geometry' =
            [geometry EXCEPT
                !.call = "rectPdfToViewport",
                !.result = rectPdfToViewport(geometry.rect,
                                             geometry.viewport)]
    /\ UNCHANGED vars
    /\ UNCHANGED <<storedDocument, storedAnnotations, saveTimeouts,
                   sinceMutation, burst, writes, exported,
                   scale, scaleMode, backend, load>>

convertBack ==
    /\ geometry.call = "rectPdfToViewport"
    /\ geometry' =
            [geometry EXCEPT
                !.call = "roundTrip",
                !.result = rectViewportToPdf(geometry.result,
                                             geometry.viewport)]
    /\ UNCHANGED vars
    /\ UNCHANGED <<storedDocument, storedAnnotations, saveTimeouts,
                   sinceMutation, burst, writes, exported,
                   scale, scaleMode, backend, load>>

NextRects ==
    \/ callRectViewportToPdf
    \/ callRectPdfToViewport
    \/ convertBack

SpecRects == InitRects /\ [][NextRects]_allVars

\* The two converted corners of the call's rectangle
ConvertedCorners ==
    IF geometry.call = "rectViewportToPdf"
    THEN <<viewportToPdf(NearCorner(geometry.rect), geometry.viewport),
           viewportToPdf(FarCorner(geometry.rect), geometry.viewport)>>
    ELSE <<pdfToViewport(NearCorner(geometry.rect), geometry.viewport),
           pdfToViewport(FarCorner(geometry.rect), geometry.viewport)>>

\* left is the smaller of p and q, and left + extent is the larger.
Spans(left, extent, p, q) ==
    /\ ~QLess(extent, Q(0))
    /\ ~QLess(p, left)
    /\ ~QLess(q, left)
    /\ QEq(left, p) \/ QEq(left, q)
    /\ ~QLess(QAdd(left, extent), p)
    /\ ~QLess(QAdd(left, extent), q)
    /\ QEq(QAdd(left, extent), p) \/ QEq(QAdd(left, extent), q)

RectEq(r1, r2) ==
    /\ QEq(r1.x, r2.x)
    /\ QEq(r1.y, r2.y)
    /\ QEq(r1.width, r2.width)
    /\ QEq(r1.height, r2.height)

\* The viewport turns or flips the page, so that a far corner comes out
\* left of or above the near corner.
Inverting(viewport) ==
    viewport.a < 0 \/ viewport.d < 0 \/ viewport.b < 0 \/ viewport.c < 0

----------------------------------------------------------------------------
(* C27 *)

\* C27: the rectangle rectViewportToPdf or rectPdfToViewport returns has a
\* width and a height of at least 0, its x and y are the smaller x and the
\* smaller y of the two converted corners, and it reaches to the larger
\* ones, whatever the viewport: flipped, rotated or scaled.
C27_ConvertedRectNormalized ==
    geometry.call \in {"rectViewportToPdf", "rectPdfToViewport"} =>
        /\ Spans(geometry.result.x, geometry.result.width,
                 ConvertedCorners[1].x, ConvertedCorners[2].x)
        /\ Spans(geometry.result.y, geometry.result.height,
                 ConvertedCorners[1].y, ConvertedCorners[2].y)

\* A rectangle converted to the view by a viewport under which its far
\* corner comes out left of and above its near corner.
C27_CornersSwapped ==
    /\ geometry.call = "rectPdfToViewport"
    /\ QLess(ConvertedCorners[2].x, ConvertedCorners[1].x)
    /\ QLess(ConvertedCorners[2].y, ConvertedCorners[1].y)
    /\ QEq(geometry.result.x, ConvertedCorners[2].x)
    /\ QLess(Q(0), geometry.result.width)

----------------------------------------------------------------------------
(* C28 *)

\* C28: a rectangle converted to the view and back with the same viewport
\* is the rectangle again, for every viewport that flips an axis, turns by
\* a multiple of 90 degrees or scales by an integer.
C28_RoundTrip ==
    geometry.call = "roundTrip" => RectEq(geometry.result, geometry.rect)

\* A rectangle with an area has gone to the view and back through a
\* viewport with a flipped axis and a scale above 1.
C28_RoundTripThroughFlip ==
    /\ geometry.call = "roundTrip"
    /\ Inverting(geometry.viewport)
    /\ geometry.viewport.a * geometry.viewport.d
            - geometry.viewport.b * geometry.viewport.c \notin {1, -1}
    /\ QLess(Q(0), geometry.rect.width)
    /\ QLess(Q(0), geometry.rect.height)
    /\ RectEq(geometry.result, geometry.rect)

----------------------------------------------------------------------------
(* Path simplification: simplifyPath of lib/geometry.ts, the               *)
(* Ramer-Douglas-Peucker algorithm.  Distances are only compared, with     *)
(* each other and with epsilon >= 0, so the model keeps their squares and  *)
(* leaves out Math.sqrt.                                                    *)

\* Bounds of the paths
MaxX == 3
MaxY == 1
MaxPathLength == 4
MaxEpsilon == 2

Points == {[x |-> x, y |-> y] : x \in 0..MaxX, y \in 0..MaxY}

Paths == UNION {[1..n -> Points] : n \in 0..MaxPathLength}

\* useAnnotations passes 2, the default; epsilon is never negative.
Epsilons == 0..MaxEpsilon

QMul(p, q) == [n |-> p.n * q.n, d |-> p.d * q.d]

\* distance(p1, p2) squared, for points with fractions as coordinates
DistanceSquared(p1, p2) ==
    QAdd(QMul(QSub(p2.x, p1.x), QSub(p2.x, p1.x)),
         QMul(QSub(p2.y, p1.y), QSub(p2.y, p1.y)))

\* perpendicularDistance(point, lineStart, lineEnd) squared: the distance
\* to the nearest point of the segment.
\*   t = Math.max(0, Math.min(1, ((p - s) . (e - s)) / |e - s|^2))
\*   projection = s + t (e - s)
PerpendicularDistanceSquared(point, lineStart, lineEnd) ==
    LET dx == lineEnd.x - lineStart.x
        dy == lineEnd.y - lineStart.y
        p == [x |-> Q(point.x), y |-> Q(point.y)]
        start == [x |-> Q(lineStart.x), y |-> Q(lineStart.y)]
    IN  IF dx = 0 /\ dy = 0
        THEN DistanceSquared(p, start)
        ELSE LET ratio ==
                     QDivInt(Q((point.x - lineStart.x) * dx
                                + (point.y - lineStart.y) * dy),
                             dx * dx + dy * dy)
                 clamped == QMin(Q(1), ratio)
                 t == IF QLess(clamped, Q(0)) THEN Q(0) ELSE clamped
                 projection ==
                     [x |-> QAdd(Q(lineStart.x), QMulInt(dx, t)),
                      y |-> QAdd(Q(lineStart.y), QMulInt(dy, t))]
             IN  DistanceSquared(p, projection)

\* A scan that measures each point against the segment between its two
\* neighbours instead of the chord from the first point to the last.
RECURSIVE FarthestFromNeighbours(_, _, _)
FarthestFromNeighbours(points, i, farthest) ==
    IF i >= Len(points) - 1
    THEN farthest
    ELSE LET d == PerpendicularDistanceSquared(points[i + 1], points[i],
                                               points[i + 2])
         IN  FarthestFromNeighbours(points, i + 1,
                    IF QLess(farthest.maxDistance, d)
                    THEN [maxDistance |-> d, maxIndex |-> i]
                    ELSE farthest)

\* A scan in which a later point at the same distance replaces the earlier.
RECURSIVE FarthestLastWins(_, _, _)
FarthestLastWins(points, i, farthest) ==
    IF i >= Len(points) - 1
    THEN farthest
    ELSE LET d == PerpendicularDistanceSquared(points[i + 1], points[1],
                                               points[Len(points)])
         IN  FarthestLastWins(points, i + 1,
                    IF ~QLess(d, farthest.maxDistance)
                    THEN [maxDistance |-> d, maxIndex |-> i]
                    ELSE farthest)

\* for (let i = 1; i < points.length - 1; i++)
\*   if (d > maxDistance) { maxDistance = d; maxIndex = i }
\* from index i on (0-based, as in the code), with the maximum so far.
RECURSIVE Farthest(_, _, _)
Farthest(points, i, farthest) ==
    IF i >= Len(points) - 1
    THEN farthest
    ELSE LET d == PerpendicularDistanceSquared(points[i + 1], points[1],
                                               points[Len(points)])
         IN  Farthest(points, i + 1,
                    IF QLess(farthest.maxDistance, d)
                    THEN [maxDistance |-> d, maxIndex |-> i]
                    ELSE farthest)

\* points.slice(from, to), 0-based, to excluded
Slice(points, from, to) == SubSeq(points, from + 1, to)

\* [...left.slice(0, -1), ...right]
Joined(left, right) == DropLast(left) \o right

RECURSIVE simplifyPath(_, _)
simplifyPath(points, epsilon) ==
    IF Len(points) <= 2
    THEN points
    ELSE LET farthest ==
                 Farthest(points, 1, [maxDistance |-> Q(0), maxIndex |-> 0])
         IN  IF QLess(Q(epsilon * epsilon), farthest.maxDistance)
             THEN Joined(simplifyPath(Slice(points, 0,
                                            farthest.maxIndex + 1),
                                      epsilon),
                         simplifyPath(Slice(points, farthest.maxIndex,
                                            Len(points)),
                                      epsilon))
             ELSE <<points[1], points[Len(points)]>>

\* The calls the model makes: a path and an epsilon, then simplifyPath, then
\* simplifyPath on its result.
InitPaths ==
    /\ InitEditor
    /\ geometry \in {[call |-> "arguments", points |-> points,
                      epsilon |-> epsilon, result |-> points,
                      again |-> points] :
                        points \in Paths, epsilon \in Epsilons}

callSimplifyPath ==
    /\ geometry.call = "arguments"
    /\ geometry' =
            [geometry EXCEPT
                !.call = "simplifyPath",
                !.result = simplifyPath(geometry.points, geometry.epsilon),
                !.again = simplifyPath(geometry.points, geometry.epsilon)]
    /\ UNCHANGED vars
    /\ UNCHANGED <<storedDocument, storedAnnotations, saveTimeouts,
                   sinceMutation, burst, writes, exported,
                   scale, scaleMode, backend, load>>

simplifyAgain ==
    /\ geometry.call = "simplifyPath"
    /\ geometry' =
            [geometry EXCEPT
                !.call = "simplifyPath twice",
                !.again = simplifyPath(geometry.result, geometry.epsilon)]
    /\ UNCHANGED vars
    /\ UNCHANGED <<storedDocument, storedAnnotations, saveTimeouts,
                   sinceMutation, burst, writes, exported,
                   scale, scaleMode, backend, load>>

NextPaths ==
    \/ callSimplifyPath
    \/ simplifyAgain

SpecPaths == InitPaths /\ [][NextPaths]_allVars

----------------------------------------------------------------------------
(* C29 *)

\* C29: simplifying a simplified path with the same epsilon gives the
\* simplified path again.
C29_SimplifyPathIdempotent ==
    geometry.call = "simplifyPath twice" => geometry.again = geometry.result

\* A path that the first call shortened, but not to its two end points,
\* has been simplified a second time.
C29_ShortenedPathSimplifiedAgain ==
    /\ geometry.call = "simplifyPath twice"
    /\ Len(geometry.result) < Len(geometry.points)
    /\ Len(geometry.result) > 2
    /\ geometry.again = geometry.result

----------------------------------------------------------------------------
(* C30 *)

\* result is points with some of them left out: its points are points of
\* the input at increasing positions, from the first position to the last.
IsThinning(result, points) ==
    \E position \in [1..Len(result) -> 1..Len(points)] :
        /\ position[1] = 1
        /\ position[Len(result)] = Len(points)
        /\ \A i \in 1..(Len(result) - 1) : position[i] < position[i + 1]
        /\ \A i \in 1..Len(result) : result[i] = points[position[i]]

\* The squared distance of the point at position i from the chord
ChordDistanceSquared(points, i) ==
    PerpendicularDistanceSquared(points[i], points[1], points[Len(points)])

\* The positions between the first and the last
Interior(points) == 2..(Len(points) - 1)

\* The first position at the maximum distance from the chord
FirstFarthest(points) ==
    CHOOSE i \in Interior(points) :
        /\ \A j \in Interior(points) :
                ~QLess(ChordDistanceSquared(points, i),
                       ChordDistanceSquared(points, j))
        /\ \A j \in Interior(points) :
                j < i => QLess(ChordDistanceSquared(points, j),
                               ChordDistanceSquared(points, i))

\* No point is farther than epsilon from the chord.
WithinEpsilon(points, epsilon) ==
    \A i \in Interior(points) :
        ~QLess(Q(epsilon * epsilon), ChordDistanceSquared(points, i))

\* The result of a split at position k: the simplified part up to k, then
\* the simplified part from k on, the point at k once.
SplitAt(points, k, epsilon) ==
    DropLast(simplifyPath(SubSeq(points, 1, k), epsilon))
        \o simplifyPath(SubSeq(points, k, Len(points)), epsilon)

\* C30: simplifyPath returns a path of at most 2 points as it is.  Of a
\* longer path it returns points of the path in their order, from the
\* first to the last, none twice for one position: the first and the last
\* alone when no point is farther than epsilon from the chord, otherwise
\* the two simplified parts split at the first point that is farthest from
\* the chord, that point once.
C30_SimplifyPathStructure ==
    geometry.call = "simplifyPath" =>
        IF Len(geometry.points) <= 2
        THEN geometry.result = geometry.points
        ELSE /\ IsThinning(geometry.result, geometry.points)
             /\ IF WithinEpsilon(geometry.points, geometry.epsilon)
                THEN geometry.result =
                        <<geometry.points[1],
                          geometry.points[Len(geometry.points)]>>
                ELSE geometry.result =
                        SplitAt(geometry.points,
                                FirstFarthest(geometry.points),
                                geometry.epsilon)

\* A path with two points at the same, largest distance from the chord,
\* farther than epsilon: it has been split at the first of them, and a
\* split at the second would have given another path.
C30_SplitAtFirstOfTwoFarthest ==
    /\ geometry.call = "simplifyPath"
    /\ Len(geometry.points) > 2
    /\ ~WithinEpsilon(geometry.points, geometry.epsilon)
    /\ \E j \in Interior(geometry.points) :
            /\ j > FirstFarthest(geometry.points)
            /\ QEq(ChordDistanceSquared(geometry.points, j),
                   ChordDistanceSquared(geometry.points,
                                        FirstFarthest(geometry.points)))
            /\ geometry.result # SplitAt(geometry.points, j,
                                         geometry.epsilon)
    /\ geometry.result = SplitAt(geometry.points,
                                 FirstFarthest(geometry.points),
                                 geometry.epsilon)

----------------------------------------------------------------------------
(* Resizing: applyResize of lib/geometry.ts, as ShapeAnnotation calls it   *)
(* while a handle is dragged.  Coordinates are whole numbers here.         *)

\* Bounds of the drags
MaxDrag == 2
MaxMinSize == 2
MaxGrowth == 1

\* ResizeHandle['position']
Handles == {"nw", "n", "ne", "e", "se", "s", "sw", "w"}

\* handle.includes(letter)
Includes(handle, letter) ==
    CASE letter = "w" -> handle \in {"nw", "w", "sw"}
      [] letter = "n" -> handle \in {"nw", "n", "ne"}
      [] letter = "e" -> handle \in {"ne", "e", "se"}
      [] letter = "s" -> handle \in {"se", "s", "sw"}

\* A resize that clamps the size and leaves x and y where the drag put
\* them.
applyResizeUnanchored(rect, handle, dx, dy, minSize) ==
    LET x == IF Includes(handle, "w") THEN rect.x + dx ELSE rect.x
        y == IF Includes(handle, "n") THEN rect.y + dy ELSE rect.y
        width == IF Includes(handle, "w") THEN rect.width - dx
                 ELSE IF Includes(handle, "e") THEN rect.width + dx
                 ELSE rect.width
        height == IF Includes(handle, "n") THEN rect.height - dy
                  ELSE IF Includes(handle, "s") THEN rect.height + dy
                  ELSE rect.height
    IN  [x |-> x, y |-> y, width |-> Max(width, minSize),
         height |-> Max(height, minSize)]

\* The switch over the handle, then "Ensure minimum size":
\*   if (width < minSize) {
\*     if (handle.includes('w')) x = rect.x + rect.width - minSize
\*     width = minSize }
\* and the same for height, 'n' and y.
applyResize(rect, handle, dx, dy, minSize) ==
    LET x == IF Includes(handle, "w") THEN rect.x + dx ELSE rect.x
        y == IF Includes(handle, "n") THEN rect.y + dy ELSE rect.y
        width == IF Includes(handle, "w") THEN rect.width - dx
                 ELSE IF Includes(handle, "e") THEN rect.width + dx
                 ELSE rect.width
        height == IF Includes(handle, "n") THEN rect.height - dy
                  ELSE IF Includes(handle, "s") THEN rect.height + dy
                  ELSE rect.height
    IN  [x |-> IF width < minSize /\ Includes(handle, "w")
               THEN rect.x + rect.width - minSize ELSE x,
         y |-> IF height < minSize /\ Includes(handle, "n")
               THEN rect.y + rect.height - minSize ELSE y,
         width |-> IF width < minSize THEN minSize ELSE width,
         height |-> IF height < minSize THEN minSize ELSE height]

\* A rectangle at least minSize wide and high, a handle and a drag; then
\* the call.
InitResize ==
    /\ InitEditor
    /\ geometry \in
         {[call |-> "arguments", handle |-> handle, dx |-> dx, dy |-> dy,
           minSize |-> minSize,
           rect |-> [x |-> x, y |-> y, width |-> minSize + w,
                     height |-> minSize + h],
           result |-> [x |-> x, y |-> y, width |-> minSize + w,
                       height |-> minSize + h]] :
            handle \in Handles, dx \in (-MaxDrag)..MaxDrag,
            dy \in (-MaxDrag)..MaxDrag, minSize \in 1..MaxMinSize,
            x \in 0..MaxCoordinate, y \in 0..MaxCoordinate,
            w \in 0..MaxGrowth, h \in 0..MaxGrowth}

callApplyResize ==
    /\ geometry.call = "arguments"
    /\ geometry' =
            [geometry EXCEPT
                !.call = "applyResize",
                !.result = applyResize(geometry.rect, geometry.handle,
                                       geometry.dx, geometry.dy,
                                       geometry.minSize)]
    /\ UNCHANGED vars
    /\ UNCHANGED <<storedDocument, storedAnnotations, saveTimeouts,
                   sinceMutation, burst, writes, exported,
                   scale, scaleMode, backend, load>>

NextResize == callApplyResize

SpecResize == InitResize /\ [][NextResize]_allVars

----------------------------------------------------------------------------
(* C31 *)

\* C31: applyResize of a rectangle at least minSize wide and high returns
\* a rectangle at least minSize wide and high; the edge opposite to the
\* handle stays (the right edge for w, nw, sw; the bottom edge for n, nw,
\* ne; the left edge for e, ne, se; the top edge for s, se, sw), and so do
\* the edges the handle does not name.
C31_ResizeKeepsMinSizeAndAnchor ==
    geometry.call = "applyResize" =>
        LET rect == geometry.rect
            result == geometry.result
            handle == geometry.handle
        IN  /\ result.width >= geometry.minSize
            /\ result.height >= geometry.minSize
            /\ handle \in {"w", "nw", "sw"} =>
                    result.x + result.width = rect.x + rect.width
            /\ handle \in {"n", "nw", "ne"} =>
                    result.y + result.height = rect.y + rect.height
            /\ handle \in {"e", "ne", "se"} => result.x = rect.x
            /\ handle \in {"s", "se", "sw"} => result.y = rect.y
            /\ handle \in {"n", "s"} =>
                    result.x = rect.x /\ result.width = rect.width
            /\ handle \in {"e", "w"} =>
                    result.y = rect.y /\ result.height = rect.height

\* The nw handle dragged past the opposite corner: the size is clamped to
\* minSize in both directions and the bottom right corner has stayed.
C31_DraggedPastOppositeCorner ==
    /\ geometry.call = "applyResize"
    /\ geometry.handle = "nw"
    /\ geometry.dx > geometry.rect.width - geometry.minSize
    /\ geometry.dy > geometry.rect.height - geometry.minSize
    /\ geometry.result.width = geometry.minSize
    /\ geometry.result.height = geometry.minSize
    /\ geometry.result.x = geometry.rect.x + geometry.rect.width
                                - geometry.minSize

----------------------------------------------------------------------------
(* Zoom: the scale of the view, stores/editor-store.ts.  A number is a     *)
(* fraction n / d; d = 0 gives the values that are not finite: 0 / 0 is    *)
(* NaN, 1 / 0 is Infinity.  Every comparison with NaN is false.            *)

NaN == [n |-> 0, d |-> 0]
Infinity == [n |-> 1, d |-> 0]
IsNaN(x) == x.n = 0 /\ x.d = 0

\* Math.min, Math.max of JavaScript: NaN when an argument is NaN
MathMin(a, b) == IF IsNaN(a) \/ IsNaN(b) THEN NaN ELSE QMin(a, b)
MathMax(a, b) ==
    IF IsNaN(a) \/ IsNaN(b) THEN NaN ELSE IF QLess(a, b) THEN b ELSE a

\* A fraction in lowest terms: the same number
RECURSIVE Gcd(_, _)
Gcd(a, b) == IF b = 0 THEN a ELSE Gcd(b, a % b)
Lowest(q) ==
    LET g == Gcd(IF q.n < 0 THEN -q.n ELSE q.n, q.d)
    IN  IF g = 0 THEN q ELSE [n |-> q.n \div g, d |-> q.d \div g]

Hundredths(k) == Lowest([n |-> k, d |-> 100])

\* scale * 1.25, scale / 1.25
TimesFiveQuarters(q) == Lowest(QMulInt(5, QDivInt(q, 4)))
DividedByFiveQuarters(q) == Lowest(QMulInt(4, QDivInt(q, 5)))

ZOOM_LEVELS ==
    <<Hundredths(25), Hundredths(50), Hundredths(75), Hundredths(100),
      Hundredths(125), Hundredths(150), Hundredths(200), Hundredths(300),
      Hundredths(400)>>
MIN_ZOOM == Hundredths(10)
MAX_ZOOM == Hundredths(500)

\* The arguments of setScale: the hundredths from below MIN_ZOOM to above
\* MAX_ZOOM, and the numbers that are not finite.
MaxHundredths == 501
ScaleArguments ==
    {Hundredths(k) : k \in (-1)..MaxHundredths} \cup {NaN, Infinity}

setScale(argument) ==
    /\ scale' = MathMax(MIN_ZOOM, MathMin(argument, MAX_ZOOM))
    /\ scaleMode' = "custom"
    /\ UNCHANGED vars
    /\ UNCHANGED <<storedDocument, storedAnnotations, saveTimeouts,
                   sinceMutation, burst, writes, exported, geometry,
                   backend, load>>

setScaleMode(mode) ==
    /\ scaleMode' = mode
    /\ UNCHANGED scale
    /\ UNCHANGED vars
    /\ UNCHANGED <<storedDocument, storedAnnotations, saveTimeouts,
                   sinceMutation, burst, writes, exported, geometry,
                   backend, load>>

fitWidth == setScaleMode("fit-width")
fitPage == setScaleMode("fit-page")

\* ZOOM_LEVELS.find((z) => z > scale + 0.01): the index, 0 when none
NextLevel ==
    LET above == {i \in 1..Len(ZOOM_LEVELS) :
                    QLess(QAdd(scale, Hundredths(1)), ZOOM_LEVELS[i])}
    IN  IF above = {} THEN 0
        ELSE CHOOSE i \in above : \A j \in above : i <= j

\* [...ZOOM_LEVELS].reverse().find((z) => z < scale - 0.01)
PrevLevel ==
    LET below == {i \in 1..Len(ZOOM_LEVELS) :
                    QLess(ZOOM_LEVELS[i], QSub(scale, Hundredths(1)))}
    IN  IF below = {} THEN 0
        ELSE CHOOSE i \in below : \A j \in below : i >= j

zoomIn ==
    /\ IF NextLevel # 0
       THEN scale' = ZOOM_LEVELS[NextLevel] /\ scaleMode' = "custom"
       ELSE IF QLess(scale, MAX_ZOOM)
            THEN /\ scale' = MathMin(TimesFiveQuarters(scale), MAX_ZOOM)
                 /\ scaleMode' = "custom"
            ELSE UNCHANGED <<scale, scaleMode, backend, load>>
    /\ UNCHANGED vars
    /\ UNCHANGED <<storedDocument, storedAnnotations, saveTimeouts,
                   sinceMutation, burst, writes, exported, geometry,
                   backend, load>>

zoomOut ==
    /\ IF PrevLevel # 0
       THEN scale' = ZOOM_LEVELS[PrevLevel] /\ scaleMode' = "custom"
       ELSE IF QLess(MIN_ZOOM, scale)
            THEN /\ scale' = MathMax(DividedByFiveQuarters(scale), MIN_ZOOM)
                 /\ scaleMode' = "custom"
            ELSE UNCHANGED <<scale, scaleMode, backend, load>>
    /\ UNCHANGED vars
    /\ UNCHANGED <<storedDocument, storedAnnotations, saveTimeouts,
                   sinceMutation, burst, writes, exported, geometry,
                   backend, load>>

NextZoom ==
    \/ \E argument \in ScaleArguments : setScale(argument)
    \/ fitWidth
    \/ fitPage
    \/ zoomIn
    \/ zoomOut

SpecZoom == Init /\ [][NextZoom]_allVars

----------------------------------------------------------------------------
(* C32 *)

WithinZoomRange == ~QLess(scale, MIN_ZOOM) /\ ~QLess(MAX_ZOOM, scale)
                        /\ ~IsNaN(scale)

\* C32: after any sequence of setScale (with any argument), zoomIn and
\* zoomOut from the initial scale 1.0 the scale is within [0.1, 5.0];
\* zoomIn never decreases the scale and zoomOut never increases it.
C32_ScaleWithinZoomRange ==
    /\ []WithinZoomRange
    /\ [][zoomIn => ~QLess(scale', scale)]_allVars
    /\ [][zoomOut => ~QLess(scale, scale')]_allVars

----------------------------------------------------------------------------
(* The backend: routes/upload.ts, routes/documents.ts, lib/storage.ts.     *)
(* A handler runs up to its next await as one step; the file system calls  *)
(* of fs/promises are the steps in between.  observed records what the     *)
(* clients have been told: the ids generated, the ids of the uploads and   *)
(* deletes answered with success, and the ids a DELETE was made for.  A    *)
(* request keeps, as before, what was observed when it arrived.            *)

getFilePath(id) == <<id, "pdf">>
getMetaPath(id) == <<id, "meta.json">>
existsSync(path) == path \in storageDir

Idle(client) == requests[client].pc = "done"

Arrived(route, id) ==
    [route |-> route, id |-> id, pc |-> "arrived", status |-> 0,
     documents |-> {}, pending |-> {}, before |-> observed]

\* c.json(..., status): the handler returns
Answered(request, status) == [request EXCEPT !.pc = "done", !.status = status]

Awaiting(request, pc) == [request EXCEPT !.pc = pc]

EditorUnchanged ==
    /\ UNCHANGED vars
    /\ UNCHANGED <<storedDocument, storedAnnotations, saveTimeouts,
                   sinceMutation, burst, writes, exported, geometry,
                   scale, scaleMode, load>>

\* generateId: an id not generated before
generateDocumentId == CHOOSE id \in DocumentIds \ observed.generated :
                        \A other \in DocumentIds \ observed.generated :
                            id <= other

\* POST /api/upload up to saveFile's first writeFile
postUpload(client, file) ==
    /\ Idle(client)
    /\ IF file # "pdf"
       THEN /\ requests' = [requests EXCEPT ![client] =
                                Answered(Arrived("upload", 0), 400)]
            /\ UNCHANGED <<storageDir, observed>>
       ELSE /\ observed.generated # DocumentIds
            /\ requests' = [requests EXCEPT ![client] =
                    Awaiting(Arrived("upload", generateDocumentId),
                             "writeFile")]
            /\ observed' = [observed EXCEPT !.generated =
                                @ \cup {generateDocumentId}]
            /\ UNCHANGED storageDir
    /\ EditorUnchanged

\* saveFile: await writeFile(filePath, data)
writeFileData(client) ==
    LET request == requests[client]
    IN  /\ request.route = "upload" /\ request.pc = "writeFile"
        /\ storageDir' = storageDir \cup {getFilePath(request.id)}
        /\ requests' = [requests EXCEPT ![client] =
                            Awaiting(request, "writeMeta")]
        /\ UNCHANGED observed
        /\ EditorUnchanged

\* saveFile: await writeFile(metaPath, ...), and the upload's answer
writeFileMeta(client) ==
    LET request == requests[client]
    IN  /\ request.route = "upload" /\ request.pc = "writeMeta"
        /\ storageDir' = storageDir \cup {getMetaPath(request.id)}
        /\ requests' = [requests EXCEPT ![client] = Answered(request, 200)]
        /\ observed' = [observed EXCEPT !.uploaded = @ \cup {request.id}]
        /\ EditorUnchanged

\* GET /api/documents/:id and GET /api/documents/:id/download up to
\* getFile's first readFile
getDocument(client, route, id) ==
    /\ Idle(client)
    /\ requests' = [requests EXCEPT ![client] =
            IF existsSync(getFilePath(id)) /\ existsSync(getMetaPath(id))
            THEN Awaiting(Arrived(route, id), "readFile")
            ELSE Answered(Arrived(route, id), 404)]
    /\ UNCHANGED <<storageDir, observed>>
    /\ EditorUnchanged

\* getFile: await readFile(filePath); a failure is caught and gives null
readFileData(client) ==
    LET request == requests[client]
    IN  /\ request.route \in {"get", "download"} /\ request.pc = "readFile"
        /\ requests' = [requests EXCEPT ![client] =
                IF existsSync(getFilePath(request.id))
                THEN Awaiting(request, "readMeta")
                ELSE Answered(request, 404)]
        /\ UNCHANGED <<storageDir, observed>>
        /\ EditorUnchanged

\* getFile: await readFile(metaPath, 'utf-8'), and the answer
readFileMeta(client) ==
    LET request == requests[client]
    IN  /\ request.route \in {"get", "download"} /\ request.pc = "readMeta"
        /\ requests' = [requests EXCEPT ![client] =
                IF existsSync(getMetaPath(request.id))
                THEN Answered(request, 200)
                ELSE Answered(request, 404)]
        /\ UNCHANGED <<storageDir, observed>>
        /\ EditorUnchanged

\* DELETE /api/documents/:id up to deleteFile's first unlink
deleteDocument(client, id) ==
    /\ Idle(client)
    /\ requests' = [requests EXCEPT ![client] =
            IF existsSync(getFilePath(id))
            THEN Awaiting(Arrived("delete", id), "unlink")
            ELSE Answered(Arrived("delete", id), 404)]
    /\ observed' = [observed EXCEPT !.deleting = @ \cup {id}]
    /\ UNCHANGED storageDir
    /\ EditorUnchanged

\* deleteFile that leaves the metadata file
unlinkDataOnly(client) ==
    LET request == requests[client]
    IN  /\ request.route = "delete" /\ request.pc = "unlink"
        /\ IF ~existsSync(getFilePath(request.id))
           THEN /\ requests' = [requests EXCEPT ![client] =
                                    Answered(request, 404)]
                /\ UNCHANGED <<storageDir, observed>>
           ELSE /\ storageDir' = storageDir \ {getFilePath(request.id)}
                /\ requests' = [requests EXCEPT ![client] =
                                    Answered(request, 200)]
                /\ observed' = [observed EXCEPT !.deleted =
                                    @ \cup {request.id}]
        /\ EditorUnchanged

\* deleteFile: await unlink(filePath), then existsSync(metaPath); a failure
\* is caught and gives false
unlinkData(client) ==
    LET request == requests[client]
    IN  /\ request.route = "delete" /\ request.pc = "unlink"
        /\ IF ~existsSync(getFilePath(request.id))
           THEN /\ requests' = [requests EXCEPT ![client] =
                                    Answered(request, 404)]
                /\ UNCHANGED <<storageDir, observed>>
           ELSE /\ storageDir' = storageDir \ {getFilePath(request.id)}
                /\ IF existsSync(getMetaPath(request.id))
                   THEN /\ requests' = [requests EXCEPT ![client] =
                                            Awaiting(request, "unlinkMeta")]
                        /\ UNCHANGED observed
                   ELSE /\ requests' = [requests EXCEPT ![client] =
                                            Answered(request, 200)]
                        /\ observed' = [observed EXCEPT !.deleted =
                                            @ \cup {request.id}]
        /\ EditorUnchanged

\* deleteFile: await unlink(metaPath), and the answer
unlinkMeta(client) ==
    LET request == requests[client]
    IN  /\ request.route = "delete" /\ request.pc = "unlinkMeta"
        /\ IF ~existsSync(getMetaPath(request.id))
           THEN /\ requests' = [requests EXCEPT ![client] =
                                    Answered(request, 404)]
                /\ UNCHANGED <<storageDir, observed>>
           ELSE /\ storageDir' = storageDir \ {getMetaPath(request.id)}
                /\ requests' = [requests EXCEPT ![client] =
                                    Answered(request, 200)]
                /\ observed' = [observed EXCEPT !.deleted =
                                    @ \cup {request.id}]
        /\ EditorUnchanged

\* GET /api/documents up to listFiles' readdir
listDocuments(client) ==
    /\ Idle(client)
    /\ requests' = [requests EXCEPT ![client] =
                        Awaiting(Arrived("list", 0), "readdir")]
    /\ UNCHANGED <<storageDir, observed>>
    /\ EditorUnchanged

\* listFiles: await readdir(STORAGE_DIR), filtered to the metadata files
readdir(client) ==
    LET request == requests[client]
        metaFiles == {id \in DocumentIds : existsSync(getMetaPath(id))}
    IN  /\ request.route = "list" /\ request.pc = "readdir"
        /\ requests' = [requests EXCEPT ![client] =
                IF metaFiles = {}
                THEN Answered(request, 200)
                ELSE [request EXCEPT !.pc = "readFile",
                                     !.pending = metaFiles]]
        /\ UNCHANGED <<storageDir, observed>>
        /\ EditorUnchanged

\* listFiles: await readFile of the next metadata file, skipped when it
\* fails; after the last one the answer
readMetadata(client) ==
    LET request == requests[client]
    IN  /\ request.route = "list" /\ request.pc = "readFile"
        /\ \E id \in request.pending :
            LET read == [request EXCEPT
                            !.pending = @ \ {id},
                            !.documents =
                                IF existsSync(getMetaPath(id))
                                THEN @ \cup {id} ELSE @]
            IN  requests' = [requests EXCEPT ![client] =
                    IF read.pending = {}
                    THEN Answered(read, 200) ELSE read]
        /\ UNCHANGED <<storageDir, observed>>
        /\ EditorUnchanged

Files == {"pdf", "text", "none"}

\* The ids a client asks for: those the answers have told, which are the
\* ids of the answered uploads (a listing tells no other), and id 0.
KnownIds == observed.uploaded \cup {0}

NextBackend ==
    \E client \in Clients :
        \/ \E file \in Files : postUpload(client, file)
        \/ writeFileData(client)
        \/ writeFileMeta(client)
        \/ \E route \in {"get", "download"}, id \in KnownIds :
                getDocument(client, route, id)
        \/ readFileData(client)
        \/ readFileMeta(client)
        \/ \E id \in KnownIds : deleteDocument(client, id)
        \/ unlinkData(client)
        \/ unlinkMeta(client)
        \/ listDocuments(client)
        \/ readdir(client)
        \/ readMetadata(client)

SpecBackend == Init /\ [][NextBackend]_allVars

----------------------------------------------------------------------------
(* C33 *)

----------------------------------------------------------------------------
(* The page operations of the store in a longer history: documents of      *)
(* MaxDisplayPages pages, up to MaxPageOps operations, deletePage of any   *)
(* page index of the document, reorderPages between the first two display  *)
(* positions.                                                              *)

MaxPageOps == 5
MaxMovedPosition == 1

NextPageHistory ==
    \/ loadDocument(MaxDisplayPages) /\ StoreOnly
    \/ \E pageIndex \in 0..(MaxDisplayPages - 1) :
            deletePageWithin(MaxPageOps, pageIndex) /\ StoreOnly
    \/ \E fromIndex \in 0..MaxMovedPosition, toIndex \in 0..MaxMovedPosition :
            reorderPagesWithin(MaxPageOps, fromIndex, toIndex) /\ StoreOnly
    \/ undo /\ StoreOnly
    \/ redo /\ StoreOnly

SpecPageHistory == Init /\ [][NextPageHistory]_allVars

----------------------------------------------------------------------------
(* C34 *)

\* C34: while a document with at least one page is loaded, displayOrder
\* (pageOrder) is not empty, whatever deletePage, reorderPages, undo and
\* redo have been called.
C34_DisplayOrderNeverEmpty ==
    (document.loaded /\ document.numPages >= 1) => document.pageOrder # <<>>

----------------------------------------------------------------------------
(* C35 *)

\* sub can be obtained from seq by leaving elements out
RECURSIVE IsSubsequence(_, _)
IsSubsequence(sub, seq) ==
    IF sub = <<>> THEN TRUE
    ELSE IF seq = <<>> THEN FALSE
    ELSE IF Head(sub) = Head(seq)
         THEN IsSubsequence(Tail(sub), Tail(seq))
         ELSE IsSubsequence(sub, Tail(seq))

NoneTwice(stack) ==
    \A i, j \in 1..Len(stack) : stack[i].id = stack[j].id => i = j

\* C35: undoStack is a subsequence of operations in the same order, every
\* operation of redoStack is in operations, and no operation is in both
\* stacks or twice in one of them.
C35_StacksWithinHistory ==
    /\ IsSubsequence(undoStack, operations)
    /\ Range(redoStack) \subseteq Range(operations)
    /\ \A i \in 1..Len(undoStack), j \in 1..Len(redoStack) :
            undoStack[i].id # redoStack[j].id
    /\ NoneTwice(undoStack)
    /\ NoneTwice(redoStack)

\* Three operations of which the second was undone before the third was
\* recorded and the third was undone since: the first is the undo stack,
\* the third the redo stack and the second is in neither.
C35_OverwrittenAndUndone ==
    /\ Len(operations) = 3
    /\ undoStack = <<operations[1]>>
    /\ redoStack = <<operations[3]>>

----------------------------------------------------------------------------
(* C36 *)

\* C36: every id in selectedAnnotationIds is the id of an annotation in
\* annotations, whatever annotations were selected, added, deleted, and
\* whatever was undone and redone.
C36_SelectionExists == selectedAnnotationIds \subseteq DOMAIN annotations

----------------------------------------------------------------------------
(* C37 *)

\* C37: while a document is loaded, currentPage is a display position,
\* 1 <= currentPage <= displayOrder.length, so that the toolbar's
\* pageOrder[currentPage - 1] is defined.
C37_CurrentPageDisplayed ==
    document.loaded =>
        /\ 1 <= currentPage
        /\ currentPage <= Len(document.pageOrder)
        /\ CurrentPageIndex >= 0

----------------------------------------------------------------------------
(* C38 *)

\* C38: deletePage leaves annotations as it is, the annotations of the
\* deleted page included; an export draws no annotation of a page that is
\* deleted, and draws every annotation of a page that is not deleted (one
\* whose deletion was undone included) on the copy of that page.
C38_DeletePageKeepsAnnotations ==
    /\ [][(\E pageIndex \in PageArgs : deletePage(pageIndex)) =>
            annotations' = annotations]_allVars
    /\ [][(handleExport /\ exported' # ExportFailed) =>
            \A id \in DOMAIN annotations :
                LET drawn == {i \in 1..Len(exported'.drawn) :
                                exported'.drawn[i].annotation.id = id}
                IN  IF annotations[id].pageIndex \in document.deletedPages
                    THEN drawn = {}
                    ELSE /\ Cardinality(drawn) = 1
                         /\ \A i \in drawn :
                             exported'.pages[exported'.drawn[i].page + 1]
                                = annotations[id].pageIndex]_allVars

\* An annotation was drawn on a page, the page was deleted and the
\* deletion undone: the annotation is in the model and in the export, on
\* its page.
C38_ExportedAfterUndoneDelete ==
    /\ Len(undoStack) = 1
    /\ undoStack[1].type = "add_annotation"
    /\ Len(redoStack) = 1
    /\ redoStack[1].type = "delete_page"
    /\ redoStack[1].pageIndex = undoStack[1].annotation.pageIndex
    /\ undoStack[1].annotation.id \in DOMAIN annotations
    /\ exported # NothingExported
    /\ exported # ExportFailed
    /\ Len(exported.drawn) = 1
    /\ exported.pages[exported.drawn[1].page + 1] = redoStack[1].pageIndex
    /\ redoStack[1].pageIndex > 0

----------------------------------------------------------------------------
(* C39 *)

\* An order of page indices, none of them undefined, each below the next
Ascending(order) ==
    /\ \A i \in 1..Len(order) : order[i] # UndefinedPage
    /\ \A i, j \in 1..Len(order) : i < j => order[i] < order[j]

\* C39: when displayOrder (pageOrder) is in ascending order of original
\* page index, the adjusted index the export computes for an annotation of
\* a page that is displayed and not deleted is the position of that page
\* in displayOrder, and is an index of the pages that remain in the export.
C39_AdjustedIndexIsDisplayPosition ==
    (document.loaded /\ Ascending(document.pageOrder)) =>
        \A position \in 1..Len(document.pageOrder) :
            LET pageIndex == document.pageOrder[position]
                adjustedIndex ==
                    AdjustedIndex(pageIndex, document.deletedPages)
            IN  pageIndex \notin document.deletedPages =>
                    /\ adjustedIndex = position - 1
                    /\ adjustedIndex >= 0
                    /\ adjustedIndex < Len(ExportedPages(document))
                    /\ ExportedPages(document)[adjustedIndex + 1] = pageIndex

\* The first of three pages is deleted: the pages after it are displayed
\* one position earlier, which is their adjusted index.
C39_ShiftedByDeletedPage ==
    /\ document.loaded
    /\ document.numPages = 3
    /\ document.deletedPages = {0}
    /\ document.pageOrder = <<1, 2>>
    /\ AdjustedIndex(2, document.deletedPages) = 1

----------------------------------------------------------------------------
(* Loading a stored document step by step: hooks/usePDFDocument.ts,        *)
(* loadFromStorageInternal, called by the load effect of the editor route. *)
(* The function runs up to each await as one step; the gestures of the     *)
(* user run in between.  The database is the one an earlier session left:  *)
(* the document row as loadFromFile saved it and the annotation rows an    *)
(* auto-save wrote.                                                        *)

\* An annotation of an earlier session, under an id of that session
EarlierAnnotation ==
    [id |-> 0, pageIndex |-> 0, content |-> 0, rect |-> 0, updatedAt |-> 0]

InitLoad ==
    /\ InitSession
    /\ geometry = NoCall
    /\ storedDocument \in {NewStoredDocument(numPages) :
                                numPages \in 1..MaxPages}
    /\ storedAnnotations \in
            {EmptyMap, saveAnnotations(EmptyMap, [id \in {0} |->
                                                    EarlierAnnotation])}

Loading == load.pc \in {"getDocument", "loadPDFFromFile", "getAnnotations"}

LoadSurroundings ==
    UNCHANGED <<storedDocument, storedAnnotations, saveTimeouts,
                sinceMutation, burst, writes, exported, geometry,
                scale, scaleMode, backend>>

\* The annotations added since the load began that are still there
DrawnDuringLoad ==
    IF Loading
    THEN (load.drawn \cup ((DOMAIN annotations') \ (DOMAIN annotations)))
            \cap (DOMAIN annotations')
    ELSE load.drawn

\* A store action that leaves state.annotations the Map it was
keepingMap ==
    /\ load' = [load EXCEPT !.drawn = DrawnDuringLoad]
    /\ LoadSurroundings

\* A store action whose set() returns a new Map for annotations (a copy
\* with the change), unless it returned before set()
replacingMap ==
    /\ load' = [load EXCEPT !.sameMap = @ /\ vars' = vars,
                            !.drawn = DrawnDuringLoad]
    /\ LoadSurroundings

\* The load effect: getDocument(docId) has found the row, loadFromStorage
\* is called and awaits getDocument(documentId)
callLoadFromStorage ==
    /\ ~Loading
    /\ storedDocument.stored
    /\ load' = [NotLoading EXCEPT !.pc = "getDocument"]
    /\ UNCHANGED vars
    /\ LoadSurroundings

\* storedDoc = await getDocument(documentId); loadPDFFromFile is awaited
getDocumentResolved ==
    /\ load.pc = "getDocument"
    /\ load' = [load EXCEPT !.pc = "loadPDFFromFile",
                            !.storedDoc = storedDocument]
    /\ UNCHANGED vars
    /\ LoadSurroundings

\* result = await loadPDFFromFile(...); loadDocument(data, hash, numPages);
\* store = useEditorStore.getState(); the page state of the row is written
\* into store.document; getAnnotations is awaited
loadPDFFromFileResolved ==
    /\ load.pc = "loadPDFFromFile"
    /\ document' = RestoredDocument(load.storedDoc)
    /\ currentPage' = 1
    /\ annotations' = EmptyMap
    /\ operations' = <<>>
    /\ undoStack' = <<>>
    /\ redoStack' = <<>>
    /\ UNCHANGED selectedAnnotationIds
    /\ load' = [load EXCEPT !.pc = "getAnnotations", !.sameMap = TRUE]
    /\ LoadSurroundings

\* store.annotations.set(annotation.id, annotation) for every row, on the
\* Map the store had when getState() was called
SetIntoStoreMap(map, rows) ==
    [id \in (DOMAIN map) \cup (DOMAIN rows) |->
        IF id \in DOMAIN rows THEN rows[id] ELSE map[id]]

SetIntoSnapshot(sameMap, map, rows) ==
    IF sameMap THEN SetIntoStoreMap(map, rows) ELSE map

\* annotations = await getAnnotations(documentId), and the loop over them
getAnnotationsResolved ==
    /\ load.pc = "getAnnotations"
    /\ annotations' = SetIntoSnapshot(load.sameMap, annotations,
                                      getAnnotations(storedAnnotations))
    /\ load' = [load EXCEPT !.pc = "done"]
    /\ UNCHANGED <<document, currentPage, selectedAnnotationIds, operations,
                   undoStack, redoStack>>
    /\ LoadSurroundings

NextLoad ==
    \/ callLoadFromStorage
    \/ getDocumentResolved
    \/ loadPDFFromFileResolved
    \/ getAnnotationsResolved
    \/ navigate /\ keepingMap
    \/ handleRotate /\ keepingMap
    \/ handleDelete /\ keepingMap
    \/ handleDragEnd /\ keepingMap
    \/ clickAnnotation /\ keepingMap
    \/ drawAnnotation /\ replacingMap
    \/ editAnnotation /\ replacingMap
    \/ pressDelete /\ replacingMap
    \/ undo /\ replacingMap
    \/ redo /\ replacingMap

SpecLoad == InitLoad /\ [][NextLoad]_allVars

----------------------------------------------------------------------------
(* C40 *)

\* C40: when loadFromStorage completes, every annotation stored for the
\* document is in the store's annotations and no annotation added since
\* the load began is missing, whatever store actions ran between the
\* steps of the load; when the load writes the stored page state, it is
\* the page state of the store.
C40_LoadSafeUnderInterleaving ==
    [][/\ (load.pc = "getAnnotations" /\ load'.pc = "done") =>
            /\ DOMAIN getAnnotations(storedAnnotations)
                    \subseteq DOMAIN annotations'
            /\ load.drawn \subseteq DOMAIN annotations'
       /\ (load.pc = "loadPDFFromFile" /\ load'.pc = "getAnnotations") =>
            /\ document'.pageRotations = load.storedDoc.pageRotations
            /\ document'.deletedPages = Range(load.storedDoc.deletedPages)
            /\ document'.pageOrder = load.storedDoc.pageOrder]_allVars

====
